---- MODULE Spec2Model ----
(***************************************************************************)
(* Best Muscat directory: the business detail page (assets/tool.js) and    *)
(* the detail enhancer (app.enhanced.js).  The model covers the category-  *)
(* aware feature-visibility resolver, the per-category "Details" panel     *)
(* (fillDetails) and the card visibility the render pass leaves behind.    *)
(*                                                                         *)
(* JavaScript strings are sequences of one-character strings, so that      *)
(* trim(), toLowerCase() and the slug regexes are computed, not assumed.   *)
(* JavaScript values are tagged records [t |-> type, v |-> payload].       *)
(***************************************************************************)
EXTENDS Integers, Sequences, FiniteSets, TLC

----------------------------------------------------------------------------
(* Bounds of the model *)

\* longest amenities / cuisines / meals array drawn for a record
MaxChips == 1
\* how many times fillDetails may be applied to the same details panel
MaxPasses == 2

\* longest category label drawn for the slug checks
MaxLabelLen == 3

----------------------------------------------------------------------------
(* Characters and strings *)

UpperChars == <<"A","B","C","D","E","F","G","H","I","J","K","L","M","N","O","P","Q","R","S","T","U","V","W","X","Y","Z">>
LowerChars == <<"a","b","c","d","e","f","g","h","i","j","k","l","m","n","o","p","q","r","s","t","u","v","w","x","y","z">>
DigitChars == <<"0","1","2","3","4","5","6","7","8","9">>

Range(seq) == {seq[i] : i \in DOMAIN seq}

\* String.prototype.toLowerCase, one character
ToLowerChar(c) ==
  IF \E i \in DOMAIN UpperChars : UpperChars[i] = c
  THEN LowerChars[CHOOSE i \in DOMAIN UpperChars : UpperChars[i] = c]
  ELSE c

toLowerCase(s) == [i \in DOMAIN s |-> ToLowerChar(s[i])]

\* the character class [a-z0-9]
IsSlugChar(c) == c \in Range(LowerChars) \cup Range(DigitChars)

\* the whitespace String.prototype.trim removes
IsSpace(c) == c = " "

RECURSIVE TrimLeft(_)
TrimLeft(s) ==
  IF s = <<>> THEN <<>>
  ELSE IF IsSpace(Head(s)) THEN TrimLeft(Tail(s)) ELSE s

RECURSIVE TrimRight(_)
TrimRight(s) ==
  IF s = <<>> THEN <<>>
  ELSE IF IsSpace(s[Len(s)]) THEN TrimRight(SubSeq(s, 1, Len(s) - 1)) ELSE s

\* String.prototype.trim
trim(s) == TrimRight(TrimLeft(s))

\* s.replace(/[^a-z0-9]+/g, "-"): every maximal run of other characters
\* becomes one hyphen
RECURSIVE ReplaceRuns(_, _)
ReplaceRuns(s, inRun) ==
  IF s = <<>> THEN <<>>
  ELSE IF IsSlugChar(Head(s)) THEN <<Head(s)>> \o ReplaceRuns(Tail(s), FALSE)
  ELSE IF inRun THEN ReplaceRuns(Tail(s), TRUE)
  ELSE <<"-">> \o ReplaceRuns(Tail(s), TRUE)

\* s.replace(/(^-|-$)/g, ""): one leading and one trailing hyphen go
StripEdgeHyphens(s) ==
  LET a == IF s # <<>> /\ Head(s) = "-" THEN Tail(s) ELSE s
  IN  IF a # <<>> /\ a[Len(a)] = "-" THEN SubSeq(a, 1, Len(a) - 1) ELSE a

SlugWithoutEdgeStrip(s) == ReplaceRuns(toLowerCase(s), FALSE)

\* tool.js slugify, applied to a string
SlugOfString(s) == StripEdgeHyphens(ReplaceRuns(toLowerCase(s), FALSE))

\* Array.prototype.join over strings
RECURSIVE JoinStrings(_, _)
JoinStrings(parts, sep) ==
  IF parts = <<>> THEN <<>>
  ELSE IF Len(parts) = 1 THEN parts[1]
  ELSE parts[1] \o sep \o JoinStrings(Tail(parts), sep)

\* decimal spelling of a natural number
RECURSIVE NatToString(_)
NatToString(n) ==
  IF n < 10 THEN <<DigitChars[n + 1]>>
  ELSE NatToString(n \div 10) \o <<DigitChars[(n % 10) + 1]>>

----------------------------------------------------------------------------
(* JavaScript values *)

Undef    == [t |-> "undefined", v |-> <<>>]
Null     == [t |-> "null", v |-> <<>>]
Str(s)   == [t |-> "string", v |-> s]
Num(n)   == [t |-> "number", v |-> n]
Arr(a)   == [t |-> "array", v |-> a]
Obj(o)   == [t |-> "object", v |-> o]

IsNullish(x) == x.t \in {"undefined", "null"}
IsArray(x)   == x.t = "array"

\* ToBoolean
Truthy(x) ==
  CASE x.t \in {"undefined", "null"} -> FALSE
    [] x.t = "string" -> x.v # <<>>
    [] x.t = "number" -> x.v # 0
    [] OTHER -> TRUE

\* property read o[k] / o.k on a value that may not be an object
Prop(o, k) == IF o.t = "object" /\ k \in DOMAIN o.v THEN o.v[k] ELSE Undef

\* a || b
OrElse(a, b) == IF Truthy(a) THEN a ELSE b

\* Object.values(x) for an array or a plain object
ObjectValues(x) ==
  IF x.t = "array" THEN Range(x.v)
  ELSE IF x.t = "object" THEN {x.v[k] : k \in DOMAIN x.v}
  ELSE {}

\* String(x)
RECURSIVE JSString(_)
JSString(x) ==
  CASE x.t = "string" -> x.v
    [] x.t = "number" -> NatToString(x.v)
    [] x.t = "array" ->
         JoinStrings([i \in DOMAIN x.v |->
                        IF IsNullish(x.v[i]) THEN <<>> ELSE JSString(x.v[i])],
                     <<",">>)
    [] x.t = "object" -> <<"[","o","b","j","e","c","t"," ","O","b","j","e","c","t","]">>
    [] x.t = "null" -> <<"n","u","l","l">>
    [] OTHER -> <<"u","n","d","e","f","i","n","e","d">>

\* x !== undefined && x !== null && String(x).trim() !== ""
NonBlank(x) == ~IsNullish(x) /\ trim(JSString(x)) # <<>>

----------------------------------------------------------------------------
(* The business record *)

\* the fields of a record the detail page reads
Fields ==
  {"name", "slug", "categories", "schema_keys", "tags",
   "about", "about_short", "about_long", "description", "tagline",
   "amenities", "cuisines", "meals", "rating_overall", "rating",
   "subscores", "scores", "public_sentiment", "sub_food_quality", "sub_service",
   "sub_ambience", "sub_value", "sub_accessibility", "hours_raw", "hours",
   "address", "lat", "lng", "maps_url", "location",
   "neighborhood", "city", "country", "price_range", "pricing",
   "actions", "url", "website", "phone", "fact_venue",
   "fact_date", "fact_time", "fact_ticket_price", "venue"}

\* the spelling of a field name, as the string a schema_keys entry holds
FieldChars ==
  [f \in Fields |->
     CASE f = "name" -> <<"n","a","m","e">>
       [] f = "slug" -> <<"s","l","u","g">>
       [] f = "categories" -> <<"c","a","t","e","g","o","r","i","e","s">>
       [] f = "schema_keys" -> <<"s","c","h","e","m","a","_","k","e","y","s">>
       [] f = "tags" -> <<"t","a","g","s">>
       [] f = "about" -> <<"a","b","o","u","t">>
       [] f = "about_short" -> <<"a","b","o","u","t","_","s","h","o","r","t">>
       [] f = "about_long" -> <<"a","b","o","u","t","_","l","o","n","g">>
       [] f = "description" -> <<"d","e","s","c","r","i","p","t","i","o","n">>
       [] f = "tagline" -> <<"t","a","g","l","i","n","e">>
       [] f = "amenities" -> <<"a","m","e","n","i","t","i","e","s">>
       [] f = "cuisines" -> <<"c","u","i","s","i","n","e","s">>
       [] f = "meals" -> <<"m","e","a","l","s">>
       [] f = "rating_overall" -> <<"r","a","t","i","n","g","_","o","v","e","r","a","l","l">>
       [] f = "rating" -> <<"r","a","t","i","n","g">>
       [] f = "subscores" -> <<"s","u","b","s","c","o","r","e","s">>
       [] f = "scores" -> <<"s","c","o","r","e","s">>
       [] f = "public_sentiment" -> <<"p","u","b","l","i","c","_","s","e","n","t","i","m","e","n","t">>
       [] f = "sub_food_quality" -> <<"s","u","b","_","f","o","o","d","_","q","u","a","l","i","t","y">>
       [] f = "sub_service" -> <<"s","u","b","_","s","e","r","v","i","c","e">>
       [] f = "sub_ambience" -> <<"s","u","b","_","a","m","b","i","e","n","c","e">>
       [] f = "sub_value" -> <<"s","u","b","_","v","a","l","u","e">>
       [] f = "sub_accessibility" -> <<"s","u","b","_","a","c","c","e","s","s","i","b","i","l","i","t","y">>
       [] f = "hours_raw" -> <<"h","o","u","r","s","_","r","a","w">>
       [] f = "hours" -> <<"h","o","u","r","s">>
       [] f = "address" -> <<"a","d","d","r","e","s","s">>
       [] f = "lat" -> <<"l","a","t">>
       [] f = "lng" -> <<"l","n","g">>
       [] f = "maps_url" -> <<"m","a","p","s","_","u","r","l">>
       [] f = "location" -> <<"l","o","c","a","t","i","o","n">>
       [] f = "neighborhood" -> <<"n","e","i","g","h","b","o","r","h","o","o","d">>
       [] f = "city" -> <<"c","i","t","y">>
       [] f = "country" -> <<"c","o","u","n","t","r","y">>
       [] f = "price_range" -> <<"p","r","i","c","e","_","r","a","n","g","e">>
       [] f = "pricing" -> <<"p","r","i","c","i","n","g">>
       [] f = "actions" -> <<"a","c","t","i","o","n","s">>
       [] f = "url" -> <<"u","r","l">>
       [] f = "website" -> <<"w","e","b","s","i","t","e">>
       [] f = "phone" -> <<"p","h","o","n","e">>
       [] f = "fact_venue" -> <<"f","a","c","t","_","v","e","n","u","e">>
       [] f = "fact_date" -> <<"f","a","c","t","_","d","a","t","e">>
       [] f = "fact_time" -> <<"f","a","c","t","_","t","i","m","e">>
       [] f = "fact_ticket_price" -> <<"f","a","c","t","_","t","i","c","k","e","t","_","p","r","i","c","e">>
       [] f = "venue" -> <<"v","e","n","u","e">>]

\* a record with no field present
EmptyItem == [f \in Fields |-> Undef]

\* item[k] for a key k given as a string value (a schema_keys entry)
FieldByKey(item, k) ==
  IF k.t = "string" /\ \E f \in Fields : FieldChars[f] = k.v
  THEN item[CHOOSE f \in Fields : FieldChars[f] = k.v]
  ELSE Undef

----------------------------------------------------------------------------
(* Category policy tables *)

slug_restaurants == <<"r","e","s","t","a","u","r","a","n","t","s">>
slug_cafes       == <<"c","a","f","e","s">>
slug_catering    == <<"c","a","t","e","r","i","n","g","-","s","e","r","v","i","c","e","s">>
slug_events      == <<"e","v","e","n","t","s">>
slug_events_planning == <<"e","v","e","n","t","s","-","p","l","a","n","n","i","n","g">>
slug_hotels      == <<"h","o","t","e","l","s">>
slug_spas        == <<"s","p","a","s">>
slug_clinics     == <<"c","l","i","n","i","c","s">>
slug_schools     == <<"s","c","h","o","o","l","s">>
slug_malls       == <<"m","a","l","l","s">>
slug_garages     == <<"c","a","r","-","r","e","p","a","i","r","-","g","a","r","a","g","e","s">>
slug_home        == <<"h","o","m","e","-","m","a","i","n","t","e","n","a","n","c","e","-","a","n","d","-","r","e","p","a","i","r">>
slug_moving      == <<"m","o","v","i","n","g","-","a","n","d","-","s","t","o","r","a","g","e">>

\* an object literal {} : no key set
NoKeys == [k \in {} |-> TRUE]

CATEGORY_ALLOW ==
  slug_restaurants :> [cuisines |-> TRUE, meals |-> TRUE, eventFacts |-> FALSE] @@
  slug_cafes       :> [cuisines |-> TRUE, meals |-> TRUE, eventFacts |-> FALSE] @@
  slug_catering    :> [cuisines |-> TRUE, meals |-> FALSE, eventFacts |-> FALSE] @@
  slug_events      :> [cuisines |-> FALSE, meals |-> FALSE, eventFacts |-> TRUE] @@
  slug_hotels  :> NoKeys @@ slug_spas   :> NoKeys @@ slug_clinics :> NoKeys @@
  slug_schools :> NoKeys @@ slug_malls  :> NoKeys @@ slug_garages :> NoKeys @@
  slug_home    :> NoKeys @@ slug_moving :> NoKeys

\* tool.js slugify(s): (s || "") first, so a missing label gives ""
slugify(s) == IF Truthy(s) THEN SlugOfString(s.v) ELSE <<>>

catSlugify(s) == SlugOfString(s)

AllowIgnoringConfig(sectionKey, catSlug) == TRUE

AllowDefaultDeny(sectionKey, catSlug) ==
  LET cfg == IF catSlug \in DOMAIN CATEGORY_ALLOW THEN CATEGORY_ALLOW[catSlug]
             ELSE IF catSlugify(catSlug) \in DOMAIN CATEGORY_ALLOW
                  THEN CATEGORY_ALLOW[catSlugify(catSlug)]
                  ELSE NoKeys
  IN  IF sectionKey \in DOMAIN cfg THEN cfg[sectionKey] ELSE FALSE

\* is a section allowed for this category slug: the configured boolean when
\* the key is listed, allowed otherwise
allowedForCategory(sectionKey, catSlug) ==
  LET cfg == IF catSlug \in DOMAIN CATEGORY_ALLOW THEN CATEGORY_ALLOW[catSlug]
             ELSE IF catSlugify(catSlug) \in DOMAIN CATEGORY_ALLOW
                  THEN CATEGORY_ALLOW[catSlugify(catSlug)]
                  ELSE NoKeys
  IN  IF sectionKey \in DOMAIN cfg THEN cfg[sectionKey] ELSE TRUE

lbl_Category     == <<"C","a","t","e","g","o","r","y">>
lbl_Neighbourhood == <<"N","e","i","g","h","b","o","u","r","h","o","o","d">>
lbl_CityCountry  == <<"C","i","t","y"," ","/"," ","C","o","u","n","t","r","y">>
lbl_PriceRange   == <<"P","r","i","c","e"," ","R","a","n","g","e">>
lbl_Tags         == <<"T","a","g","s">>
lbl_Website      == <<"W","e","b","s","i","t","e">>
lbl_Phone        == <<"P","h","o","n","e">>
lbl_Venue        == <<"V","e","n","u","e">>
lbl_Date         == <<"D","a","t","e">>
lbl_Time         == <<"T","i","m","e">>
lbl_TicketPrice  == <<"T","i","c","k","e","t"," ","P","r","i","c","e">>
lbl_Coordinates  == <<"C","o","o","r","d","i","n","a","t","e","s">>

\* a configured row [label, key]; key "" stands for null (a computed row)
Fact(label, key) == [label |-> label, key |-> key]

FactsWithPrice ==
  << Fact(lbl_Neighbourhood, "neighborhood"), Fact(lbl_CityCountry, ""),
     Fact(lbl_PriceRange, "price_range"), Fact(lbl_Tags, "tags"),
     Fact(lbl_Website, ""), Fact(lbl_Phone, "") >>

FactsPlain ==
  << Fact(lbl_Neighbourhood, "neighborhood"), Fact(lbl_CityCountry, ""),
     Fact(lbl_Tags, "tags"), Fact(lbl_Website, ""), Fact(lbl_Phone, "") >>

FactsEvents ==
  << Fact(lbl_Venue, "fact_venue"), Fact(lbl_Date, "fact_date"),
     Fact(lbl_Time, "fact_time"), Fact(lbl_TicketPrice, "fact_ticket_price"),
     Fact(lbl_Neighbourhood, "neighborhood"), Fact(lbl_CityCountry, ""),
     Fact(lbl_Tags, "tags"), Fact(lbl_Website, ""), Fact(lbl_Phone, "") >>

CATEGORY_FACTS ==
  slug_hotels      :> [fields |-> FactsWithPrice, hideSections |-> <<>>] @@
  slug_restaurants :> [fields |-> FactsWithPrice, hideSections |-> <<>>] @@
  slug_spas        :> [fields |-> FactsWithPrice, hideSections |-> <<"cuisines", "meals">>] @@
  slug_clinics     :> [fields |-> FactsPlain, hideSections |-> <<"cuisines", "meals">>] @@
  slug_malls       :> [fields |-> FactsPlain, hideSections |-> <<"cuisines", "meals">>] @@
  slug_garages     :> [fields |-> FactsPlain, hideSections |-> <<"cuisines", "meals">>] @@
  slug_home        :> [fields |-> FactsPlain, hideSections |-> <<"cuisines", "meals">>] @@
  slug_catering    :> [fields |-> FactsWithPrice, hideSections |-> <<"cuisines", "meals">>] @@
  slug_events      :> [fields |-> FactsEvents, hideSections |-> <<"cuisines", "meals">>] @@
  slug_events_planning :> [fields |-> FactsEvents, hideSections |-> <<"cuisines", "meals">>]

\* the slug getCategoryConfig computes from the primary category label
ConfigSlugKeepEdges(primaryCatLabel) ==
  LET label == IF Truthy(primaryCatLabel) THEN primaryCatLabel.v ELSE <<>>
  IN  ReplaceRuns(toLowerCase(label), FALSE)

\* the slug getCategoryConfig computes inline:
\* (primaryCatLabel || "").toLowerCase().replace(/[^a-z0-9]+/g, "-")
\*                        .replace(/(^-|-$)/g, "")
ConfigSlug(primaryCatLabel) ==
  LET label   == IF Truthy(primaryCatLabel) THEN primaryCatLabel.v ELSE <<>>
      lowered == toLowerCase(label)
      dashed  == ReplaceRuns(lowered, FALSE)
  IN  StripEdgeHyphens(dashed)

HasCategoryConfig(primaryCatLabel) ==
  ConfigSlug(primaryCatLabel) \in DOMAIN CATEGORY_FACTS

\* getCategoryConfig; only read where HasCategoryConfig holds (null otherwise)
getCategoryConfig(primaryCatLabel) == CATEGORY_FACTS[ConfigSlug(primaryCatLabel)]

----------------------------------------------------------------------------
(* Feature-visibility resolver *)

FeatureKeys ==
  {"about", "amenities", "cuisines", "meals", "rating", "hours", "map",
   "details", "headerRatingPill", "eventFacts"}

FEATURE_REQUIREMENTS ==
  [about     |-> <<"about", "about_short", "about_long", "description", "tagline">>,
   amenities |-> <<"amenities">>,
   cuisines  |-> <<"cuisines">>,
   meals     |-> <<"meals">>,
   rating    |-> <<"rating_overall", "sub_food_quality", "sub_service",
                   "sub_ambience", "sub_value", "sub_accessibility",
                   "subscores", "scores", "public_sentiment">>,
   hours     |-> <<"hours_raw">>,
   map       |-> <<"address", "lat", "lng", "maps_url">>,
   details   |-> <<"categories", "tags", "pricing", "price_range", "neighborhood",
                   "city", "country", "lat", "lng">>,
   headerRatingPill |-> <<"rating_overall", "rating">>,
   eventFacts |-> <<"fact_venue", "fact_date", "fact_time", "fact_ticket_price">>]

\* does schema_keys hold any of these columns
hasSchema(item, cols) ==
  LET keys == IF IsArray(item["schema_keys"]) THEN item["schema_keys"].v ELSE <<>>
  IN  \E i \in DOMAIN cols : \E j \in DOMAIN keys : keys[j] = Str(FieldChars[cols[i]])

ColumnHasDataNoTrim(item, c) == ~IsNullish(item[c])

\* one column of hasData's cols.some(...)
ColumnHasData(item, c) ==
  LET v == item[c] IN
  IF c = "about"
  THEN LET nested == IF Truthy(item["about"])
                     THEN OrElse(Prop(item["about"], "short"), Prop(item["about"], "long"))
                     ELSE item["about"]
       IN  Truthy(nested) /\ trim(JSString(nested)) # <<>>
  ELSE IF Truthy(v) /\ v.t \in {"object", "array"}
  THEN \E x \in ObjectValues(v) : NonBlank(x)
  ELSE IF IsArray(v) THEN Len(v.v) > 0 ELSE NonBlank(v)

\* the extra predicates render attaches to a feature key
ExtraChecks(key) ==
  CASE key = "rating"  -> {"ratingNumeric"}
    [] key = "hours"   -> {"hoursWeekly"}
    [] key = "map"     -> {"locationAny"}
    [] key = "details" -> {"always"}
    [] OTHER -> {}

EvalExtra(fn, it) ==
  CASE fn = "ratingNumeric" ->
         \/ it["rating_overall"].t = "number"
         \/ it["rating"].t = "number"
         \/ /\ Truthy(it["subscores"])
            /\ it["subscores"].t \in {"object", "array", "string"}
            /\ DOMAIN it["subscores"].v # {}
    [] fn = "hoursWeekly" ->
         Truthy(it["hours"]) /\ Truthy(Prop(it["hours"], "weekly"))
    [] fn = "locationAny" ->
         /\ Truthy(it["location"])
         /\ \/ Truthy(Prop(it["location"], "lat"))
            \/ Truthy(Prop(it["location"], "lng"))
            \/ Truthy(it["address"])
    [] OTHER -> TRUE

\* a predicate handed to hasData that raises on every record
Throwing == "throwing"

\* fn(item): "true" or "false", or "throws" when the predicate raises
CallExtra(fn, it) ==
  IF fn = Throwing THEN "throws"
  ELSE IF EvalExtra(fn, it) THEN "true" ELSE "false"

TryExtraNoCatch(fn, it) == CallExtra(fn, it)

\* try { return !!fn(item); } catch (e) { return false; }
TryExtra(fn, it) ==
  IF CallExtra(fn, it) = "throws" THEN "false" ELSE CallExtra(fn, it)

\* a call of hasData: "true" or "false", or "throws" when an error leaves it
HasDataOutcome(item, cols, extraChecks) ==
  LET valHit   == \E i \in DOMAIN cols : ColumnHasData(item, cols[i])
      extraHit == \E fn \in extraChecks : TryExtra(fn, item) = "true"
  IN  IF \E fn \in extraChecks : TryExtra(fn, item) = "throws" THEN "throws"
      ELSE IF valHit \/ extraHit THEN "true" ELSE "false"

hasData(item, cols, extraChecks) == HasDataOutcome(item, cols, extraChecks) = "true"

\* item.categories[0] when categories is an array, "" otherwise
PrimaryCat(item) ==
  IF IsArray(item["categories"]) /\ Len(item["categories"].v) > 0
     /\ Truthy(item["categories"].v[1])
  THEN item["categories"].v[1]
  ELSE Str(<<>>)

ResolveOr(item, key) ==
  LET cols == FEATURE_REQUIREMENTS[key]
  IN  (hasSchema(item, cols) /\ hasData(item, cols, ExtraChecks(key)))
      \/ allowedForCategory(key, slugify(PrimaryCat(item)))

\* features[key] of render: schemaOK && dataOK && catOK
ResolveFeature(item, key) ==
  LET cols     == FEATURE_REQUIREMENTS[key]
      schemaOK == hasSchema(item, cols)
      dataOK   == hasData(item, cols, ExtraChecks(key))
      catOK    == allowedForCategory(key, slugify(PrimaryCat(item)))
  IN  schemaOK /\ dataOK /\ catOK

ResolveFeatures(item) == [key \in FeatureKeys |-> ResolveFeature(item, key)]

----------------------------------------------------------------------------
(* Details panel: fillDetails and the auto-discovered extras *)

EXCLUDE_DETAIL_KEYS ==
  {<<"i","d">>, <<"s","l","u","g">>, <<"n","a","m","e">>, <<"c","a","t","e","g","o","r","y">>, <<"c","a","t","e","g","o","r","i","e","s">>, <<"t","a","g","l","i","n","e">>,
   <<"d","e","s","c","r","i","p","t","i","o","n">>, <<"a","b","o","u","t">>, <<"a","b","o","u","t","_","s","h","o","r","t">>, <<"a","b","o","u","t","_","l","o","n","g">>,
   <<"l","o","g","o","_","u","r","l">>, <<"h","e","r","o","_","u","r","l">>, <<"i","m","a","g","e","_","c","r","e","d","i","t">>, <<"i","m","a","g","e","_","s","o","u","r","c","e","_","u","r","l">>,
   <<"p","l","a","c","e","_","i","d">>, <<"o","s","m","_","t","y","p","e">>, <<"o","s","m","_","i","d">>, <<"w","i","k","i","d","a","t","a","_","i","d">>,
   <<"p","r","i","c","i","n","g">>, <<"p","r","i","c","e">>, <<"p","r","i","c","e","_","r","a","n","g","e">>,
   <<"r","a","t","i","n","g">>, <<"r","a","t","i","n","g","_","o","v","e","r","a","l","l">>, <<"s","u","b","s","c","o","r","e","s">>, <<"s","c","o","r","e","s">>,
   <<"p","u","b","l","i","c","_","s","e","n","t","i","m","e","n","t">>, <<"p","u","b","l","i","c","_","r","e","v","i","e","w","s">>,
   <<"r","e","v","i","e","w","_","c","o","u","n","t">>, <<"r","e","v","i","e","w","_","s","o","u","r","c","e">>, <<"r","e","v","i","e","w","_","i","n","s","i","g","h","t">>, <<"l","a","s","t","_","u","p","d","a","t","e","d">>,
   <<"h","o","u","r","s","_","r","a","w">>, <<"h","o","u","r","s">>,
   <<"n","e","i","g","h","b","o","r","h","o","o","d">>, <<"a","d","d","r","e","s","s">>, <<"c","i","t","y">>, <<"c","o","u","n","t","r","y">>, <<"l","a","t">>, <<"l","n","g">>,
   <<"w","e","b","s","i","t","e">>, <<"p","h","o","n","e">>, <<"m","a","p","s","_","u","r","l">>, <<"u","r","l">>,
   <<"a","c","t","i","o","n","s">>, <<"i","m","a","g","e","s">>, <<"i","m","a","g","e">>, <<"h","e","r","o">>, <<"g","a","l","l","e","r","y">>,
   <<"s","c","h","e","m","a","_","k","e","y","s">>, <<"p","r","e","s","e","n","t","_","k","e","y","s">>, <<"l","o","c","a","t","i","o","n">>, <<"c","r","e","a","t","e","d","_","a","t">>,
   <<"a","m","e","n","i","t","i","e","s">>, <<"c","u","i","s","i","n","e","s">>, <<"m","e","a","l","s">>}

EXCLUDE_PREFIXES ==
  <<<<"s","u","b","_">>, <<"r","e","v","i","e","w","_">>, <<"i","m","a","g","e","_">>, <<"a","c","t","i","o","n","s",".">>, <<"l","o","c","a","t","i","o","n",".">>, <<"i","m","a","g","e","s",".">>>>

\* String.prototype.startsWith
startsWith(s, p) == Len(s) >= Len(p) /\ SubSeq(s, 1, Len(p)) = p

\* String.prototype.toUpperCase, one character
ToUpperChar(c) ==
  IF \E i \in DOMAIN LowerChars : LowerChars[i] = c
  THEN UpperChars[CHOOSE i \in DOMAIN LowerChars : LowerChars[i] = c]
  ELSE c

\* the class \w of a regular expression
IsWordChar(c) ==
  c \in Range(LowerChars) \cup Range(UpperChars) \cup Range(DigitChars) \cup {"_"}

\* s.replace(/[_\-]+/g, " ")
RECURSIVE ReplaceSeparators(_, _)
ReplaceSeparators(s, inRun) ==
  IF s = <<>> THEN <<>>
  ELSE IF Head(s) \in {"_", "-"}
       THEN IF inRun THEN ReplaceSeparators(Tail(s), TRUE)
            ELSE <<" ">> \o ReplaceSeparators(Tail(s), TRUE)
       ELSE <<Head(s)>> \o ReplaceSeparators(Tail(s), FALSE)

\* s.replace(/\b\w/g, c => c.toUpperCase())
CapitalizeWords(s) ==
  [i \in DOMAIN s |->
     IF IsWordChar(s[i]) /\ (i = 1 \/ ~IsWordChar(s[i - 1]))
     THEN ToUpperChar(s[i]) ELSE s[i]]

\* pretty label from a key: fact_venue -> Venue, foo_bar -> Foo Bar
labelFromKey(k) ==
  IF ~Truthy(k) THEN <<>>
  ELSE LET name0 == JSString(k)
           name1 == IF startsWith(name0, <<"f","a","c","t","_">>)
                    THEN SubSeq(name0, 6, Len(name0)) ELSE name0
           name2 == trim(ReplaceSeparators(name1, FALSE))
       IN  CapitalizeWords(name2)

ShouldAutoShowKeyAnyPrefix(k) ==
  /\ Truthy(k)
  /\ k.v \notin EXCLUDE_DETAIL_KEYS

\* should this schema key be rendered as an extra row
shouldAutoShowKey(k) ==
  /\ Truthy(k)
  /\ k.v \notin EXCLUDE_DETAIL_KEYS
  /\ ~\E i \in DOMAIN EXCLUDE_PREFIXES : startsWith(k.v, EXCLUDE_PREFIXES[i])

\* Array.prototype.join(sep) over values: null and undefined give ""
JoinValues(a, sep) ==
  JoinStrings([i \in DOMAIN a |-> IF IsNullish(a[i]) THEN <<>> ELSE JSString(a[i])],
              sep)

CommaSpace == <<","," ">>

\* the text a row shows for a value: arrays joined, everything else trimmed
RowText(value) ==
  IF IsArray(value) THEN JoinValues(value.v, CommaSpace) ELSE trim(JSString(value))

\* fillDetails' push: append <dt>label</dt><dd>value</dd> unless the value
\* is missing or its text is empty
push(rows, label, value) ==
  IF IsNullish(value) THEN rows
  ELSE IF RowText(value) = <<>> THEN rows
  ELSE Append(rows, [label |-> label, value |-> RowText(value)])

\* [a, b].filter(Boolean).join(", ")
JoinTruthy(a, b) ==
  Str(JoinStrings(
        (IF Truthy(a) THEN <<JSString(a)>> ELSE <<>>) \o
        (IF Truthy(b) THEN <<JSString(b)>> ELSE <<>>), CommaSpace))

\* item.actions?.website || item.url
WebsiteOf(item) ==
  OrElse(IF IsNullish(item["actions"]) THEN Undef ELSE Prop(item["actions"], "website"),
         item["url"])

\* item.actions?.phone
PhoneOf(item) ==
  IF IsNullish(item["actions"]) THEN Undef ELSE Prop(item["actions"], "phone")

PushIf(rows, label, value) == IF Truthy(value) THEN push(rows, label, value) ELSE rows

\* one [label, key] entry of cfg.fields
ConfiguredRow(rows, item, f) ==
  IF f.label = lbl_CityCountry /\ f.key = ""
  THEN PushIf(rows, f.label, JoinTruthy(item["city"], item["country"]))
  ELSE IF f.label = lbl_Website /\ f.key = ""
  THEN PushIf(rows, f.label, WebsiteOf(item))
  ELSE IF f.label = lbl_Phone /\ f.key = ""
  THEN PushIf(rows, f.label, PhoneOf(item))
  ELSE IF f.key # ""
  THEN IF NonBlank(item[f.key]) THEN push(rows, f.label, item[f.key]) ELSE rows
  ELSE rows

RECURSIVE ConfiguredRows(_, _, _)
ConfiguredRows(rows, item, fields) ==
  IF fields = <<>> THEN rows
  ELSE ConfiguredRows(ConfiguredRow(rows, item, Head(fields)), item, Tail(fields))

FallbackRowsNoNeighbourhood(rows, item) ==
  LET r1 == rows
      r2 == PushIf(r1, lbl_CityCountry, JoinTruthy(item["city"], item["country"]))
      r3 == PushIf(r2, lbl_PriceRange, OrElse(item["price_range"], item["pricing"]))
      r4 == IF IsArray(item["tags"]) /\ Len(item["tags"].v) > 0
            THEN push(r3, lbl_Tags, Str(JoinValues(item["tags"].v, CommaSpace)))
            ELSE r3
      r5 == PushIf(r4, lbl_Website, WebsiteOf(item))
  IN  PushIf(r5, lbl_Phone, PhoneOf(item))

\* the generic rows when the category has no config
FallbackRows(rows, item) ==
  LET r1 == PushIf(rows, lbl_Neighbourhood, item["neighborhood"])
      r2 == PushIf(r1, lbl_CityCountry, JoinTruthy(item["city"], item["country"]))
      r3 == PushIf(r2, lbl_PriceRange, OrElse(item["price_range"], item["pricing"]))
      r4 == IF IsArray(item["tags"]) /\ Len(item["tags"].v) > 0
            THEN push(r3, lbl_Tags, Str(JoinValues(item["tags"].v, CommaSpace)))
            ELSE r3
      r5 == PushIf(r4, lbl_Website, WebsiteOf(item))
  IN  PushIf(r5, lbl_Phone, PhoneOf(item))

\* the Coordinates row: location?.lat && location?.lng
CoordinateRows(rows, item) ==
  LET loc == item["location"]
      lat == IF IsNullish(loc) THEN Undef ELSE Prop(loc, "lat")
      lng == IF IsNullish(loc) THEN Undef ELSE Prop(loc, "lng")
  IN  IF Truthy(lat) /\ Truthy(lng)
      THEN push(rows, lbl_Coordinates, Str(JSString(lat) \o CommaSpace \o JSString(lng)))
      ELSE rows

\* the labels of the panel, trimmed and lower-cased
ShownLabels(rows) == {toLowerCase(trim(rows[i].label)) : i \in DOMAIN rows}

ExtraRowNoDedupe(rows, item, k, shown) ==
  IF ~shouldAutoShowKey(k) THEN rows
  ELSE LET v == FieldByKey(item, k) IN
       IF IsNullish(v) THEN rows
       ELSE IF RowText(v) = <<>> THEN rows
       ELSE push(rows, labelFromKey(k), Str(RowText(v)))

\* one schema key of the auto-extras loop; shown is computed once, before the loop
ExtraRow(rows, item, k, shown) ==
  IF ~shouldAutoShowKey(k) THEN rows
  ELSE LET v == FieldByKey(item, k) IN
       IF IsNullish(v) THEN rows
       ELSE IF RowText(v) = <<>> THEN rows
       ELSE IF toLowerCase(labelFromKey(k)) \in shown THEN rows
       ELSE push(rows, labelFromKey(k), Str(RowText(v)))

RECURSIVE ExtraRows(_, _, _, _)
ExtraRows(rows, item, keys, shown) ==
  IF keys = <<>> THEN rows
  ELSE ExtraRows(ExtraRow(rows, item, Head(keys), shown), item, Tail(keys), shown)

FillDetailsCategoryLast(item, aside) ==
  LET primaryCat == PrimaryCat(item)
      r2 == IF HasCategoryConfig(primaryCat)
            THEN ConfiguredRows(aside, item, getCategoryConfig(primaryCat).fields)
            ELSE FallbackRows(aside, item)
      r1 == IF Truthy(primaryCat) THEN push(r2, lbl_Category, primaryCat) ELSE r2
      r3 == CoordinateRows(r1, item)
      schema == IF IsArray(item["schema_keys"]) THEN item["schema_keys"].v ELSE <<>>
  IN  ExtraRows(r3, item, schema, ShownLabels(r3))

\* fillDetails(item), appending to the rows the panel already holds
fillDetails(item, aside) ==
  LET primaryCat == PrimaryCat(item)
      r1 == IF Truthy(primaryCat) THEN push(aside, lbl_Category, primaryCat) ELSE aside
      r2 == IF HasCategoryConfig(primaryCat)
            THEN ConfiguredRows(r1, item, getCategoryConfig(primaryCat).fields)
            ELSE FallbackRows(r1, item)
      r3 == CoordinateRows(r2, item)
      schema == IF IsArray(item["schema_keys"]) THEN item["schema_keys"].v ELSE <<>>
  IN  ExtraRows(r3, item, schema, ShownLabels(r3))

----------------------------------------------------------------------------
(* Description text: the excerpt under the title and the About body *)

\* the placeholder the About body shows, the one character U+2014
EmDash == "EM DASH"

\* item.about && (item.about.short || item.about.long)
AboutShortFirst(item) ==
  IF Truthy(item["about"])
  THEN OrElse(Prop(item["about"], "short"), Prop(item["about"], "long"))
  ELSE item["about"]

\* item.about && (item.about.long || item.about.short)
AboutLongFirst(item) ==
  IF Truthy(item["about"])
  THEN OrElse(Prop(item["about"], "long"), Prop(item["about"], "short"))
  ELSE item["about"]

\* const short = ... || ""
ExcerptSource(item) ==
  OrElse(AboutShortFirst(item),
  OrElse(item["about_short"],
  OrElse(item["about_long"],
  OrElse(item["description"],
  OrElse(item["tagline"], Str(<<>>))))))

AboutSourceShortFirst(item) ==
  OrElse(AboutShortFirst(item),
  OrElse(item["about_short"],
  OrElse(item["about_long"],
  OrElse(item["description"],
  OrElse(item["tagline"], Str(<<EmDash>>))))))

\* const longTxt = ... || "\u2014"
AboutSource(item) ==
  OrElse(AboutLongFirst(item),
  OrElse(item["about_long"],
  OrElse(item["about_short"],
  OrElse(item["description"],
  OrElse(item["tagline"], Str(<<EmDash>>))))))

\* the excerpt write of a render pass
RenderExcerpt(t, item) ==
  LET short == ExcerptSource(item)
  IN  IF Truthy(short) /\ trim(JSString(short)) # <<>>
      THEN [t EXCEPT !.excerpt = JSString(short), !.excerptHidden = FALSE]
      ELSE [t EXCEPT !.excerptHidden = TRUE]

\* the excerpt and About writes of one render pass
RenderTexts(t, item) ==
  LET t1 == RenderExcerpt(t, item)
  IN  IF ResolveFeature(item, "about")
      THEN [t1 EXCEPT !.about = JSString(AboutSource(item))]
      ELSE t1

----------------------------------------------------------------------------
(* Cards of the detail page *)

Cards == {"about", "amenities", "cuisines", "meals", "rating", "hours", "map", "facts"}

\* hideCard(id) / showCard(id): ids without an element change nothing
hideCard(h, id) == IF id \in DOMAIN h THEN [h EXCEPT ![id] = TRUE] ELSE h
showCard(h, id) == IF id \in DOMAIN h THEN [h EXCEPT ![id] = FALSE] ELSE h

\* (features.x ? showCard : hideCard)(id) for the eight cards
ApplyFeatures(h, f) ==
  [id \in Cards |-> IF id = "facts" THEN ~f["details"] ELSE ~f[id]]

RECURSIVE HideAll(_, _)
HideAll(h, ids) == IF ids = <<>> THEN h ELSE HideAll(hideCard(h, Head(ids)), Tail(ids))

\* enforceCategoryHides: hide every id of the category's hideSections
enforceCategoryHides(h, item) ==
  IF HasCategoryConfig(PrimaryCat(item))
  THEN HideAll(h, getCategoryConfig(PrimaryCat(item)).hideSections)
  ELSE h

\* mountChips(sectionId, chipRootId, values)
mountChips(h, sectionId, values) ==
  IF ~IsArray(values) \/ Len(values.v) = 0
  THEN hideCard(h, sectionId)
  ELSE showCard(h, sectionId)

renderChips(h, item) ==
  mountChips(mountChips(mountChips(h, "amenities", item["amenities"]),
                        "cuisines", item["cuisines"]),
             "meals", item["meals"])

HideIfNoChips(h, id, values) ==
  IF ~IsArray(values) \/ Len(values.v) = 0 THEN hideCard(h, id) ELSE h

enforceChipVisibility(h, item) ==
  HideIfNoChips(HideIfNoChips(HideIfNoChips(h, "amenities", item["amenities"]),
                              "cuisines", item["cuisines"]),
                "meals", item["meals"])

RenderCardsWithoutChips(h, item) ==
  enforceCategoryHides(ApplyFeatures(h, ResolveFeatures(item)), item)

\* the hidden attributes render leaves: features applied, category hides,
\* then the chip cards mounted and the defensive re-hide
RenderCards(h, item) ==
  enforceChipVisibility(
    renderChips(enforceCategoryHides(ApplyFeatures(h, ResolveFeatures(item)), item),
                item),
    item)

\* renderDetailExtras of the enhancer, as far as the base cards go
renderDetailExtras(h, place) ==
  LET one(hh, id) ==
        IF ~IsArray(place[id]) \/ Len(place[id].v) = 0
        THEN hideCard(hh, id) ELSE showCard(hh, id)
  IN  one(one(h, "cuisines"), "meals")

----------------------------------------------------------------------------
(* Sub-navigation and document title of the render pass *)

\* hideEmptyNavLinks: link.style.display = 'none' when the section is hidden
hideEmptyNavLinks(n, h) ==
  [id \in DOMAIN n |-> IF n[id] = "shown" /\ h[id] THEN "hidden" ELSE n[id]]

\* pruneSubnav: a.remove() when the section is hidden
pruneSubnav(n, h) ==
  [id \in DOMAIN n |-> IF n[id] # "removed" /\ h[id] THEN "removed" ELSE n[id]]

\* the hidden attributes when the sub-navigation is pruned
CardsAtPrune(h, item) == enforceCategoryHides(ApplyFeatures(h, ResolveFeatures(item)), item)

RenderNav(n, h, item) ==
  pruneSubnav(hideEmptyNavLinks(n, CardsAtPrune(h, item)), CardsAtPrune(h, item))

txt_Dashed    == <<" ", EmDash, " ">>
txt_BestMuscat == <<" ","|"," ","B","e","s","t"," ","M","u","s","c","a","t">>
txt_Place     == <<"P","l","a","c","e">>

\* document.title = `${item.name} -- ${primaryCat || "Place"} | Best Muscat`
RenderDocTitle(item) ==
  JSString(item["name"]) \o txt_Dashed
    \o JSString(OrElse(PrimaryCat(item), Str(txt_Place))) \o txt_BestMuscat

----------------------------------------------------------------------------
(* TypeErrors of the render pass *)

\* (x || "").slice(0, 5) and x.startsWith(...) need a string or a falsy x
NotAString(x) == Truthy(x) /\ x.t # "string"

\* one window of renderHours' arr.map: w.start and w.end are sliced
WindowThrows(w) ==
  \/ IsNullish(w)
  \/ NotAString(Prop(w, "start"))
  \/ NotAString(Prop(w, "end"))

\* const arr = hours.weekly[key] || []; if (!arr.length) ...; arr.map(...)
DayThrows(arr) ==
  CASE arr.t = "array"  -> \E i \in DOMAIN arr.v : WindowThrows(arr.v[i])
    [] arr.t = "string" -> arr.v # <<>>
    [] OTHER -> FALSE

DayKeys == {"mon", "tue", "wed", "thu", "fri", "sat", "sun"}

\* does renderHours(hours) throw
RenderHoursThrows(hours) ==
  /\ Truthy(hours) /\ Truthy(Prop(hours, "weekly"))
  /\ \E d \in DayKeys : DayThrows(Prop(Prop(hours, "weekly"), d))

\* the first statement of render that throws a TypeError on this record:
\* slugify(primaryCat), item.maps_url.startsWith(...), renderHours(item.hours)
RenderThrowPoint(item) ==
  IF NotAString(PrimaryCat(item)) THEN "slugify"
  ELSE IF NotAString(item["maps_url"]) THEN "maps"
  ELSE IF ResolveFeature(item, "hours") /\ RenderHoursThrows(item["hours"]) THEN "hours"
  ELSE "none"

----------------------------------------------------------------------------
(* Records drawn for the dataset *)

txt_Souq      == <<"S","o","u","q">>
txt_souq      == <<"s","o","u","q">>
txt_Restaurants == <<"R","e","s","t","a","u","r","a","n","t","s">>
txt_Events    == <<"E","v","e","n","t","s">>
txt_EVENTS    == <<" ","E","V","E","N","T","S","!">>
txt_Hotels    == <<"H","o","t","e","l","s">>
txt_Zoo       == <<"Z","o","o">>
txt_Cozy      == <<"C","o","z","y"," ","s","p","o","t">>
txt_Blank     == <<" ">>
txt_Omani     == <<"O","m","a","n","i">>
txt_Lunch     == <<"L","u","n","c","h">>
txt_Wifi      == <<"W","i","f","i">>
txt_Qurum     == <<"Q","u","r","u","m">>
txt_Muscat    == <<"M","u","s","c","a","t">>
txt_Oman      == <<"O","m","a","n">>
txt_Dollars   == <<"$","$">>
txt_Dollar    == <<"$">>
txt_Site      == <<"h","t","t","p","s",":","/","/","a",".","o","m">>
txt_Tel       == <<"9","6","8">>
txt_Hall      == <<"H","a","l","l">>
txt_sea       == <<"s","e","a">>
txt_view      == <<"v","i","e","w">>
txt_Dome      == <<"D","o","m","e">>
txt_short     == <<"s","h","o","r","t">>
txt_long      == <<"l","o","n","g">>
txt_flatShort == <<"f","l","a","t"," ","s","h","o","r","t">>
txt_flatLong  == <<"f","l","a","t"," ","l","o","n","g">>
txt_described == <<"d","e","s","c","r","i","b","e","d">>
txt_tagged    == <<"t","a","g","g","e","d">>
txt_note      == <<"n","o","t","e">>
txt_Friday    == <<"F","r","i","d","a","y">>

\* categories: [label]
Cat(label) == Arr(<<Str(label)>>)

\* n copies of one chip
Chips(text, n) == Arr([i \in 1..n |-> Str(text)])

SchemaOf(fields) == Arr([i \in DOMAIN fields |-> Str(FieldChars[fields[i]])])

\* the columns of every section, as a full CSV header would list them
FullSchema ==
  SchemaOf(<<"categories", "about", "amenities", "cuisines", "meals",
             "rating_overall", "hours_raw", "address", "city">>)

FactSchema ==
  SchemaOf(<<"categories", "neighborhood", "city", "country", "price_range",
             "sub_service", "venue", "fact_date", "fact_venue", "tags">>)

NamedItem ==
  [EmptyItem EXCEPT !["name"] = Str(txt_Souq), !["slug"] = Str(txt_souq)]

\* records that exercise the section cards
CardRecords ==
  { [NamedItem EXCEPT !["categories"] = c, !["schema_keys"] = sk,
                      !["cuisines"] = cu, !["meals"] = ch.meals,
                      !["amenities"] = ch.amenities, !["about"] = x.about,
                      !["rating"] = x.rating, !["hours"] = x.hours,
                      !["location"] = x.location, !["rating_overall"] = x.overall] :
      c  \in {Undef, Cat(txt_Restaurants), Cat(txt_Events), Cat(txt_EVENTS),
              Cat(txt_Zoo)},
      sk \in {Undef, Arr(<<>>), FullSchema, SchemaOf(<<"cuisines", "meals">>)},
      cu \in {Undef} \cup {Chips(txt_Omani, n) : n \in 0..MaxChips},
      ch \in { [meals |-> Undef, amenities |-> Undef],
               [meals |-> Chips(txt_Lunch, 1), amenities |-> Undef],
               [meals |-> Chips(txt_Lunch, 1), amenities |-> Chips(txt_Wifi, 1)] },
      x  \in { [about |-> Undef, rating |-> Undef, hours |-> Undef,
                location |-> Undef, overall |-> Undef],
               [about |-> Obj([short |-> Str(txt_Cozy)]), rating |-> Undef,
                hours |-> Undef, location |-> Undef, overall |-> Undef],
               [about |-> Obj([short |-> Str(txt_Blank)]), rating |-> Undef,
                hours |-> Undef, location |-> Undef, overall |-> Undef],
               [about |-> Undef, rating |-> Num(8), hours |-> Undef,
                location |-> Undef, overall |-> Str(<<>>)],
               [about |-> Obj([short |-> Str(txt_Cozy)]), rating |-> Undef,
                hours |-> Obj([weekly |-> Obj(NoKeys)]), location |-> Undef,
                overall |-> Num(9)],
               [about |-> Undef, rating |-> Undef, hours |-> Undef,
                location |-> Obj([lat |-> Num(23), lng |-> Num(58)]),
                overall |-> Undef] } }

\* records that exercise the details panel
FactRecords ==
  { [NamedItem EXCEPT !["categories"] = c, !["schema_keys"] = sk,
                      !["neighborhood"] = p.neighborhood, !["city"] = p.city,
                      !["country"] = p.country,
                      !["price_range"] = pr.price_range, !["pricing"] = pr.pricing,
                      !["tags"] = pr.tags, !["actions"] = w.actions, !["url"] = w.url,
                      !["location"] = w.location, !["fact_venue"] = fv.fact_venue,
                      !["venue"] = fv.venue, !["fact_date"] = fv.fact_date,
                      !["sub_service"] = fv.sub_service] :
      c  \in {Undef, Cat(txt_Hotels), Cat(txt_Events), Cat(txt_Zoo)},
      sk \in {Undef, FactSchema},
      p  \in { [neighborhood |-> Undef, city |-> Undef, country |-> Undef],
               [neighborhood |-> Str(txt_Qurum), city |-> Str(txt_Muscat),
                country |-> Str(txt_Oman)],
               [neighborhood |-> Str(txt_Qurum), city |-> Undef, country |-> Undef],
               [neighborhood |-> Undef, city |-> Str(txt_Blank),
                country |-> Str(txt_Oman)] },
      pr \in { [price_range |-> Undef, pricing |-> Undef, tags |-> Undef],
               [price_range |-> Str(txt_Dollars), pricing |-> Undef,
                tags |-> Arr(<<Str(txt_sea), Str(txt_view)>>)],
               [price_range |-> Str(txt_Dollars), pricing |-> Undef, tags |-> Undef],
               [price_range |-> Undef, pricing |-> Str(txt_Dollar), tags |-> Undef] },
      w  \in { [actions |-> Undef, url |-> Undef, location |-> Undef],
               [actions |-> Obj([website |-> Str(txt_Site), phone |-> Str(txt_Tel)]),
                url |-> Undef, location |-> Obj([lat |-> Num(23), lng |-> Num(58)])],
               [actions |-> Undef, url |-> Str(txt_Site),
                location |-> Obj([lat |-> Num(0), lng |-> Num(58)])] },
      fv \in { [fact_venue |-> Undef, venue |-> Undef, fact_date |-> Undef,
                sub_service |-> Undef],
               [fact_venue |-> Str(txt_Hall), venue |-> Undef, fact_date |-> Undef,
                sub_service |-> Undef],
               [fact_venue |-> Str(txt_Hall), venue |-> Str(txt_Dome),
                fact_date |-> Str(txt_Friday), sub_service |-> Num(4)] } }

\* records that exercise the description fields and odd chip arrays
DescRecords ==
  { [NamedItem EXCEPT !["categories"] = Cat(txt_Zoo), !["schema_keys"] = FullSchema,
                      !["about"] = ab, !["about_short"] = fl.about_short,
                      !["about_long"] = fl.about_long,
                      !["description"] = r.description, !["tagline"] = r.tagline,
                      !["amenities"] = am] :
      ab \in { Undef,
               Obj([short |-> Str(txt_short), long |-> Str(txt_long)]),
               Obj([short |-> Str(txt_short)]),
               Obj([long |-> Str(txt_long)]),
               Obj([short |-> Str(txt_Blank)]),
               Obj([note |-> Str(txt_note)]) },
      fl \in { [about_short |-> Undef, about_long |-> Undef],
               [about_short |-> Str(txt_flatShort), about_long |-> Str(txt_flatLong)],
               [about_short |-> Str(txt_flatShort), about_long |-> Undef],
               [about_short |-> Undef, about_long |-> Str(txt_flatLong)] },
      r  \in { [description |-> Undef, tagline |-> Undef],
               [description |-> Str(txt_described), tagline |-> Str(txt_tagged)],
               [description |-> Undef, tagline |-> Str(txt_tagged)],
               [description |-> Num(0), tagline |-> Undef] },
      am \in { Undef, Arr(<<Str(<<>>)>>) } }

txt_NineToFive == <<"9","-","5">>
txt_Five       == <<"1","7",":","0","0">>

\* hours.weekly with one Monday window whose start is the number 9
OddHours ==
  Obj([weekly |-> Obj([mon |-> Arr(<<Obj([start |-> Num(9), end |-> Str(txt_Five)])>>)])])

\* records with a field of an unexpected type
MalformedRecords ==
  { [NamedItem EXCEPT !["categories"] = Arr(<<Num(5)>>), !["schema_keys"] = FullSchema],
    [NamedItem EXCEPT !["categories"] = Cat(txt_Restaurants),
                      !["schema_keys"] = FullSchema, !["maps_url"] = Num(7),
                      !["about"] = Obj([short |-> Str(txt_Cozy)])],
    [NamedItem EXCEPT !["categories"] = Cat(txt_Restaurants),
                      !["schema_keys"] = FullSchema, !["hours"] = OddHours,
                      !["hours_raw"] = Str(txt_NineToFive),
                      !["about"] = Obj([short |-> Str(txt_Cozy)])],
    [NamedItem EXCEPT !["categories"] = Cat(txt_Restaurants),
                      !["schema_keys"] = SchemaOf(<<"cuisines", "meals">>),
                      !["hours"] = OddHours, !["hours_raw"] = Str(txt_NineToFive)] }

txt_yes == <<"y","e","s">>

\* records whose chip fields are not arrays
OddChipRecords ==
  { [NamedItem EXCEPT !["categories"] = Cat(txt_Zoo), !["schema_keys"] = FullSchema,
                      !["cuisines"] = Str(txt_Omani), !["meals"] = Chips(txt_Lunch, 1)],
    [NamedItem EXCEPT !["categories"] = Cat(txt_Zoo), !["schema_keys"] = FullSchema,
                      !["amenities"] = Obj([wifi |-> Str(txt_yes)])] }

Records ==
  CardRecords \cup FactRecords \cup DescRecords \cup MalformedRecords \cup OddChipRecords

\* category labels over a small alphabet: letters of both cases, a digit, a
\* hyphen and a blank
LabelChars == {"a", "B", "1", "-", " "}

Labels == UNION {[1..n -> LabelChars] : n \in 0..MaxLabelLen}

\* records that differ in their category label only
LabelRecords ==
  { [NamedItem EXCEPT !["categories"] = Cat(l), !["schema_keys"] = FullSchema,
                      !["cuisines"] = Chips(txt_Omani, 1)] :
      l \in Labels \cup {txt_EVENTS, txt_Restaurants} }

\* the ?slug= values tried against the dataset
UrlSlugs == {<<>>, txt_souq, txt_Souq, txt_Zoo}

----------------------------------------------------------------------------
(* State *)

VARIABLES
  urlSlug,   \* the raw ?slug= of the page URL
  item,      \* the record of data/tools.json
  pcLoad,    \* where load() of tool.js stands
  pcEnh,     \* where enhanceDetail() of the enhancer stands
  title,     \* #d-title text
  features,  \* the feature map of the render pass
  hidden,    \* hidden attribute of each card
  aside,     \* rows of the details panel #d-details
  passes,    \* how many times fillDetails ran
  texts,     \* #d-excerpt (text, hidden) and #d-about (text)
  probe,     \* the outcome of a direct call of hasData, once made
  docTitle,  \* document.title
  nav,       \* the links of .detail-subnav: "shown", "hidden" or "removed"
  pcSeo,     \* where the tool.html branch of app.js init() stands
  pcList,    \* where init() of app.js stands on the directory listing
  tools,     \* the normalized dataset of the listing
  selectedCategories,
  currentQuery,
  currentPage,
  visible,   \* the filtered list
  grid,      \* the cards of #grid
  pageInfo,  \* the text of #page-info
  pcCur,     \* where run() of curated.js stands
  listSlug,  \* the ?list= of the curated page
  curation,  \* the entry of data/curations.json
  cTitle,    \* the text of #c-title
  cGrid,     \* the content of #c-grid
  cJsonLd,   \* the itemListElement of #jsonld-list
  pcBest,    \* where load() of best-things.js stands
  btRows,    \* rows, the content of assets/best-things.json
  byKey,     \* the rows grouped by tab key and sorted
  activeTab, \* the tab with class "active"
  featured,  \* the row of the featured card
  listings,  \* the rows of the listings column
  blocks     \* the stacked blocks of the see-all mode

\* the state of the directory listing
listVars ==
  <<pcList, tools, selectedCategories, currentQuery, currentPage, visible, grid,
    pageInfo>>

\* the state of the pages other than tool.html
\* the state of the curated-list page
curatedVars == <<pcCur, listSlug, curation, cTitle, cGrid, cJsonLd>>

\* the state of the Best Things section
bestVars == <<pcBest, btRows, byKey, activeTab, featured, listings, blocks>>

pages == <<listVars, curatedVars, bestVars>>

\* the variables no script of the detail page writes, but app.js on tool.html
others == <<pcSeo, pages>>

vars ==
  <<urlSlug, item, pcLoad, pcEnh, title, features, hidden, aside, passes, texts, probe,
    docTitle, nav, others>>

\* a curations.json without the list
NoCuration == [slug |-> <<>>, title |-> Undef, items |-> Undef]

\* #c-grid as the page ships it
NoGrid == [kind |-> "none", cards |-> <<>>]

\* the tabs of the Best Things section, in the order of the see-all mode
ORDER == <<"tours", "events", "wellness">>

TabKeys == {ORDER[i] : i \in DOMAIN ORDER}

\* items[0] || {}
NoRow == [id |-> 0, category |-> Undef, priority |-> Undef, title |-> Undef]

\* the Best Things section before load()
InitBestIdle ==
  /\ pcBest = "start"
  /\ btRows = <<>>
  /\ byKey = [k \in TabKeys |-> <<>>]
  /\ activeTab = "tours"
  /\ featured = NoRow
  /\ listings = <<>>
  /\ blocks = <<>>

\* the links tool.html puts in the sub-navigation
NavIds == {"about", "amenities", "cuisines", "meals", "rating", "hours", "map"}

\* the rest of the page before any script ran
InitRest ==
  /\ docTitle = <<>>
  /\ nav = [id \in NavIds |-> "shown"]
  /\ pcSeo = "start"
  /\ pcList = "start"
  /\ tools = <<>>
  /\ selectedCategories = {}
  /\ currentQuery = <<>>
  /\ currentPage = 1
  /\ visible = <<>>
  /\ grid = <<>>
  /\ pageInfo = <<>>
  /\ pcCur = "start"
  /\ listSlug = <<>>
  /\ curation = NoCuration
  /\ cTitle = <<>>
  /\ cGrid = NoGrid
  /\ cJsonLd = <<>>
  /\ InitBestIdle

\* no direct call of hasData was made
NoProbe ==
  [called |-> FALSE, key |-> "", outcomes |-> [j \in FeatureKeys |-> "false"]]

\* the page before any script wrote into it
NoTexts == [excerpt |-> <<>>, excerptHidden |-> FALSE, about |-> <<>>]

ttl_None     == <<>>
ttl_NotFound == <<"N","o","t"," ","f","o","u","n","d">>
ttl_Error    == <<"E","r","r","o","r"," ","l","o","a","d","i","n","g">>
ttl_Untitled == <<"U","n","t","i","t","l","e","d">>

\* const slug = (qs.get("slug") || "").trim().toLowerCase()
PageSlug == toLowerCase(trim(urlSlug))

AnyToolFound == TRUE

\* data.find(t => (t.slug || "").toLowerCase() === slug)
ToolFound ==
  (IF Truthy(item["slug"]) THEN toLowerCase(item["slug"].v) ELSE <<>>) = PageSlug

\* rows.find(p => p.slug === q.slug)
PlaceFound == item["slug"] = Str(urlSlug)

Init ==
  /\ \/ urlSlug = txt_souq /\ item \in Records
     \/ urlSlug \in UrlSlugs /\ item \in {NamedItem}
  /\ pcLoad = "start"
  /\ pcEnh = "start"
  /\ title = ttl_None
  /\ features = [k \in FeatureKeys |-> FALSE]
  /\ hidden \in {[id \in Cards |-> b] : b \in BOOLEAN}
  /\ aside = <<>>
  /\ passes = 0
  /\ texts = NoTexts
  /\ probe = NoProbe
  /\ InitRest

----------------------------------------------------------------------------
(* tool.js: load() and render() *)

\* if (!slug) { title = "Not found"; return; }
LoadNoSlug ==
  /\ pcLoad = "start" /\ PageSlug = <<>>
  /\ title' = ttl_NotFound
  /\ pcLoad' = "done"
  /\ UNCHANGED <<urlSlug, item, pcEnh, features, hidden, aside, passes, texts, probe, docTitle, nav, others>>

\* const res = await fetch(...)
LoadFetch ==
  /\ pcLoad = "start" /\ PageSlug # <<>>
  /\ pcLoad' = "fetching"
  /\ UNCHANGED <<urlSlug, item, pcEnh, title, features, hidden, aside, passes, texts, probe, docTitle, nav, others>>

\* if (!res.ok) { title = "Not found"; return; }
FetchNotOk ==
  /\ pcLoad = "fetching"
  /\ title' = ttl_NotFound
  /\ pcLoad' = "done"
  /\ UNCHANGED <<urlSlug, item, pcEnh, features, hidden, aside, passes, texts, probe, docTitle, nav, others>>

\* fetch rejects or res.json() throws: load().catch sets "Error loading"
LoadRejected ==
  /\ pcLoad \in {"fetching", "parsing"}
  /\ title' = ttl_Error
  /\ pcLoad' = "done"
  /\ UNCHANGED <<urlSlug, item, pcEnh, features, hidden, aside, passes, texts, probe, docTitle, nav, others>>

\* res.ok: const data = await res.json()
FetchOk ==
  /\ pcLoad = "fetching"
  /\ pcLoad' = "parsing"
  /\ UNCHANGED <<urlSlug, item, pcEnh, title, features, hidden, aside, passes, texts, probe, docTitle, nav, others>>

\* if (!tool) { title = "Not found"; return; }
ParsedNoMatch ==
  /\ pcLoad = "parsing" /\ ~ToolFound
  /\ title' = ttl_NotFound
  /\ pcLoad' = "done"
  /\ UNCHANGED <<urlSlug, item, pcEnh, features, hidden, aside, passes, texts, probe, docTitle, nav, others>>

\* render(tool, data) stopped by a TypeError; load().catch writes the title
RenderThrows ==
  /\ pcLoad = "parsing" /\ ToolFound
  /\ RenderThrowPoint(item) # "none"
  /\ title' = ttl_Error
  /\ texts' = (IF RenderThrowPoint(item) = "hours" THEN RenderTexts(texts, item)
               ELSE RenderExcerpt(texts, item))
  /\ features' = (IF RenderThrowPoint(item) = "slugify" THEN features
                  ELSE ResolveFeatures(item))
  /\ hidden' = (IF RenderThrowPoint(item) = "slugify" THEN hidden
                ELSE enforceCategoryHides(ApplyFeatures(hidden, ResolveFeatures(item)),
                                          item))
  /\ nav' = (IF RenderThrowPoint(item) = "slugify" THEN nav
             ELSE RenderNav(nav, hidden, item))
  /\ docTitle' = (IF RenderThrowPoint(item) = "slugify" THEN docTitle
                  ELSE RenderDocTitle(item))
  /\ pcLoad' = "threw"
  /\ UNCHANGED <<urlSlug, item, pcEnh, aside, passes, probe, others>>

\* render(tool, data), the whole pass
Render ==
  /\ pcLoad = "parsing" /\ ToolFound
  /\ RenderThrowPoint(item) = "none"
  /\ title' = (IF Truthy(item["name"]) THEN item["name"].v ELSE ttl_Untitled)
  /\ features' = ResolveFeatures(item)
  /\ hidden' = RenderCards(hidden, item)
  /\ aside' = (IF ResolveFeature(item, "details") THEN fillDetails(item, aside) ELSE aside)
  /\ passes' = (IF ResolveFeature(item, "details") THEN passes + 1 ELSE passes)
  /\ texts' = RenderTexts(texts, item)
  /\ nav' = RenderNav(nav, hidden, item)
  /\ docTitle' = RenderDocTitle(item)
  /\ pcLoad' = "rendered"
  /\ UNCHANGED <<urlSlug, item, pcEnh, probe, others>>

----------------------------------------------------------------------------
(* the enhancer: enhanceDetail() *)

\* if (!q.slug) return;
EnhanceNoSlug ==
  /\ pcEnh = "start" /\ urlSlug = <<>>
  /\ pcEnh' = "done"
  /\ UNCHANGED <<urlSlug, item, pcLoad, title, features, hidden, aside, passes, texts, probe, docTitle, nav, others>>

EnhanceFetch ==
  /\ pcEnh = "start" /\ urlSlug # <<>>
  /\ pcEnh' = "fetching"
  /\ UNCHANGED <<urlSlug, item, pcLoad, title, features, hidden, aside, passes, texts, probe, docTitle, nav, others>>

\* both loadJSON calls fail, or no place has the slug
EnhanceNothing ==
  /\ pcEnh = "fetching"
  /\ pcEnh' = "done"
  /\ UNCHANGED <<urlSlug, item, pcLoad, title, features, hidden, aside, passes, texts, probe, docTitle, nav, others>>

\* injectJSONLD(place); renderDetailExtras(place)
EnhanceRender ==
  /\ pcEnh = "fetching" /\ PlaceFound
  /\ hidden' = renderDetailExtras(hidden, item)
  /\ pcEnh' = "done"
  /\ UNCHANGED <<urlSlug, item, pcLoad, title, features, aside, passes, texts, probe, docTitle, nav, others>>

----------------------------------------------------------------------------
(* app.js: the tool.html branch of init() *)

ttl_ToolNotFound ==
  <<"T","o","o","l"," ","n","o","t"," ","f","o","u","n","d"," ",EmDash," ",
    "A","c","a","d","e","m","i","a"," ","w","i","t","h"," ","A","I">>

txt_places == <<"p","l","a","c","e","s">>

\* data.map(...) throws a TypeError: t.slug is truthy and has no slice, or
\* t.slug is falsy and t.name is truthy and has no toLowerCase
NormalizeThrows(t) ==
  \/ Truthy(t["slug"]) /\ t["slug"].t # "string"
  \/ ~Truthy(t["slug"]) /\ Truthy(t["name"]) /\ t["name"].t # "string"

\* slug: (t.slug || slugified name).slice(0,128); no string of the dataset
\* is longer than 128
NormalizedSlug(t) ==
  IF Truthy(t["slug"]) THEN t["slug"].v
  ELSE IF Truthy(t["name"]) THEN SlugOfString(t["name"].v) ELSE <<>>

\* name: t.name || "Untitled"
NormalizedName(t) == OrElse(t["name"], Str(ttl_Untitled))

\* categories: Array.isArray(t.categories) ? t.categories.filter(Boolean) : []
NormalizedCategories(t) ==
  IF IsArray(t["categories"]) THEN SelectSeq(t["categories"].v, Truthy) ELSE <<>>

\* (tool.categories && tool.categories[0]) || "places"
RouterPrimaryCat(t) ==
  IF Len(NormalizedCategories(t)) > 0
  THEN OrElse(NormalizedCategories(t)[1], Str(txt_places))
  ELSE Str(txt_places)

\* normalized.find(t => t.slug === slug), slug = get("slug") || ""
RouterFound == NormalizedSlug(item) = urlSlug

\* `${tool.name} <em dash> ${primaryCat} | Best Muscat`
RouterDocTitle(t) ==
  JSString(NormalizedName(t)) \o txt_Dashed \o JSString(RouterPrimaryCat(t))
    \o txt_BestMuscat

\* const res = await fetch("data/tools.json?ts=...")
SeoFetch ==
  /\ pcSeo = "start"
  /\ pcSeo' = "fetching"
  /\ UNCHANGED <<urlSlug, item, pcLoad, pcEnh, title, features, hidden, aside, passes,
                 texts, probe, docTitle, nav, pages>>

\* fetch rejects, !res.ok, the body is no array, or data.map throws: the
\* catch of init() logs a warning and writes nothing
SeoFailed ==
  /\ pcSeo = "fetching"
  /\ pcSeo' = "failed"
  /\ UNCHANGED <<urlSlug, item, pcLoad, pcEnh, title, features, hidden, aside, passes,
                 texts, probe, docTitle, nav, pages>>

\* if (!tool) { document.title = "Tool not found ..."; return; }
SeoNotFound ==
  /\ pcSeo = "fetching" /\ ~NormalizeThrows(item) /\ ~RouterFound
  /\ docTitle' = ttl_ToolNotFound
  /\ pcSeo' = "notfound"
  /\ UNCHANGED <<urlSlug, item, pcLoad, pcEnh, title, features, hidden, aside, passes,
                 texts, probe, nav, pages>>

\* document.title = ...; a TypeError of the later slugify(primaryCat) is
\* caught after the title was written
SeoFound ==
  /\ pcSeo = "fetching" /\ ~NormalizeThrows(item) /\ RouterFound
  /\ docTitle' = RouterDocTitle(item)
  /\ pcSeo' = "found"
  /\ UNCHANGED <<urlSlug, item, pcLoad, pcEnh, title, features, hidden, aside, passes,
                 texts, probe, nav, pages>>

----------------------------------------------------------------------------
(* app.js: the directory listing *)

ITEMS_PER_PAGE == 9

\* the largest dataset and the largest ?page= tried
MaxTools == 20
MaxPageParam == 4

CATEGORY_SLUG_SET ==
  { slug_hotels, slug_restaurants, slug_schools, slug_spas, slug_clinics, slug_malls,
    slug_garages, slug_home, slug_catering, slug_events, slug_moving }

Max(a, b) == IF a >= b THEN a ELSE b
Min(a, b) == IF a <= b THEN a ELSE b

\* Math.ceil(a / b)
CeilDiv(a, b) == (a + b - 1) \div b

\* Array.prototype.slice(from, to), 0-based, to exclusive
Slice(seq, from, to) ==
  IF from >= Min(to, Len(seq)) THEN <<>> ELSE SubSeq(seq, from + 1, Min(to, Len(seq)))

\* s.includes(q)
Includes(s, q) ==
  \E i \in 0..(Len(s) - Len(q)) : SubSeq(s, i + 1, i + Len(q)) = q

\* the dataset of n records after data.map(...): record i of every third is a
\* hotel, the next a restaurant, the next has no category
ToolName(i) == IF i % 2 = 1 THEN txt_Souq ELSE txt_Dome

ToolCategories(i) ==
  IF i % 3 = 1 THEN <<txt_Hotels>> ELSE IF i % 3 = 2 THEN <<txt_Restaurants>> ELSE <<>>

Dataset(n) == [i \in 1..n |-> [id |-> i, name |-> ToolName(i),
                                categories |-> ToolCategories(i)]]

ToolCounts == {0, 2, 10, MaxTools}

\* the chips clicked and the ?category= values tried
ClickedChips == {slug_hotels, slug_restaurants, slug_spas}

txt_bestThings ==
  <<"b","e","s","t"," ","t","h","i","n","g","s"," ","t","o"," ","d","o">>
txt_xyz == <<"x","y","z">>
txt_dome_padded == <<" ","d","o","m","e"," ">>

\* the ?q= values and the texts typed in the search box
UrlQueries == {<<>>, txt_souq, txt_bestThings}
TypedTexts == {<<>>, txt_souq, txt_dome_padded, txt_xyz}

\* the ?page= values: absent, 0 and 1..MaxPageParam
PageParams == 0..MaxPageParam

\* fuse.search(q).map(r => r.item): the records whose name holds the query,
\* whatever the case; the ranking Fuse gives is not modelled
FuseMatches(t, q) == Includes(toLowerCase(t.name), toLowerCase(q))

FuseSearch(ts, q) == SelectSeq(ts, LAMBDA t : FuseMatches(t, q))

\* t.categories.some(c => catFilter.includes(slugify(c)) || catFilter.includes(c))
InCategories(t, catFilter) ==
  \E i \in DOMAIN t.categories :
    SlugOfString(t.categories[i]) \in catFilter \/ t.categories[i] \in catFilter

\* applyFilters: the list it stores in visible
FilteredTools(ts, catFilter, q) ==
  LET byCat == IF catFilter # {}
               THEN SelectSeq(ts, LAMBDA t : InCategories(t, catFilter))
               ELSE ts
      arr == IF catFilter # {} /\ byCat = <<>> THEN ts ELSE byCat
  IN  IF q # <<>> THEN FuseSearch(ts, q) ELSE arr

\* Math.max(1, Math.ceil(total / ITEMS_PER_PAGE))
TotalPages(total) == Max(1, CeilDiv(total, ITEMS_PER_PAGE))

UnclampedPage(page, total) == page

\* currentPage = Math.min(currentPage, totalPages)
ClampedPage(page, total) == Min(page, TotalPages(total))

EnDash == "EN DASH"
txt_Showing == <<"S","h","o","w","i","n","g"," ">>
txt_of == <<" ","o","f"," ">>

\* `Showing ${a}<en dash>${b} of ${n}`
ShowingText(a, b, n) ==
  txt_Showing \o NatToString(a) \o <<EnDash>> \o NatToString(b) \o txt_of
    \o NatToString(n)

\* render: the page-info text, written before currentPage is clamped
PageInfoText(page, total) ==
  ShowingText(Min(total, ((page - 1) * ITEMS_PER_PAGE) + 1),
              Min(total, page * ITEMS_PER_PAGE), total)

\* render: visible.slice(start, start + ITEMS_PER_PAGE)
PageItems(vis, page) ==
  Slice(vis, (page - 1) * ITEMS_PER_PAGE, ((page - 1) * ITEMS_PER_PAGE) + ITEMS_PER_PAGE)

\* getPageWindow(curr, total, 5)
PageWindow(curr, total) ==
  LET start0 == Max(1, curr - 2)
      end == Min(total, start0 + 4)
  IN  [start |-> Max(1, end - 4), end |-> end]

\* renderPaginationNumbers: the data-page values of the numbered buttons
PagerButtons(curr, total) ==
  IF total <= 1 THEN {}
  ELSE (PageWindow(curr, total).start .. PageWindow(curr, total).end) \cup {1, total}

\* render() over the list vis with currentPage = page
ListRender(vis, page) ==
  /\ pageInfo' = PageInfoText(page, Len(vis))
  /\ currentPage' = ClampedPage(page, Len(vis))
  /\ grid' = PageItems(vis, ClampedPage(page, Len(vis)))

\* applyFilters() with the given filters and currentPage = page
ApplyFilters(ts, catFilter, q, page) ==
  /\ visible' = FilteredTools(ts, catFilter, q)
  /\ ListRender(FilteredTools(ts, catFilter, q), page)

\* parseInt(qs.get("page") || "1", 10), kept when finite and > 0
PageFromUrl(p) == IF p > 0 THEN p ELSE 1

\* the special landing: ?q=best things to do without ?category=
IsBestThingsLanding(q, cats) == toLowerCase(trim(q)) = txt_bestThings /\ cats = {}

detailVars ==
  <<urlSlug, item, pcLoad, pcEnh, title, features, hidden, aside, passes, texts, probe,
    docTitle, nav, pcSeo>>

\* init(): the URL is read, the dataset loaded and normalized, and
\* applyFilters(true) renders the first page
ListLoad ==
  /\ pcList = "start"
  /\ \E n \in ToolCounts, cats \in SUBSET ClickedChips, q \in UrlQueries,
        p \in PageParams :
       /\ ~IsBestThingsLanding(q, cats)
       /\ tools' = Dataset(n)
       /\ selectedCategories' = cats
       /\ currentQuery' = q
       /\ ApplyFilters(Dataset(n), cats, q, PageFromUrl(p))
  /\ pcList' = "ready"
  /\ UNCHANGED <<detailVars, curatedVars, bestVars>>

\* init() on the special landing: forceBestThingsView, applyFilters returns
\* before it filters or renders
ListLanding ==
  /\ pcList = "start"
  /\ \E n \in ToolCounts, p \in PageParams :
       /\ tools' = Dataset(n)
       /\ currentPage' = PageFromUrl(p)
  /\ pcList' = "landing"
  /\ UNCHANGED <<selectedCategories, currentQuery, visible, grid, pageInfo>>
  /\ UNCHANGED <<detailVars, curatedVars, bestVars>>

\* the dataset does not load: the grid shows the error text
ListLoadFailed ==
  /\ pcList = "start"
  /\ \E cats \in SUBSET ClickedChips, q \in UrlQueries, p \in PageParams :
       /\ selectedCategories' = cats
       /\ currentQuery' = (IF IsBestThingsLanding(q, cats) THEN <<>> ELSE q)
       /\ currentPage' = PageFromUrl(p)
  /\ pcList' = "failed"
  /\ UNCHANGED <<tools, visible, grid, pageInfo>>
  /\ UNCHANGED <<detailVars, curatedVars, bestVars>>

\* click on a category chip
ChipClick ==
  /\ pcList = "ready"
  /\ \E slug \in ClickedChips :
       LET sel == IF slug \in selectedCategories
                  THEN selectedCategories \ {slug}
                  ELSE selectedCategories \cup {slug}
       IN  /\ selectedCategories' = sel
           /\ currentQuery' = <<>>
           /\ ApplyFilters(tools, sel, <<>>, 1)
  /\ UNCHANGED <<pcList, tools>>
  /\ UNCHANGED <<detailVars, curatedVars, bestVars>>

\* the debounced input handler of the search box
SearchInput ==
  /\ pcList = "ready"
  /\ \E typed \in TypedTexts :
       /\ currentQuery' = trim(typed)
       /\ ApplyFilters(tools, selectedCategories, trim(typed), 1)
  /\ UNCHANGED <<pcList, tools, selectedCategories>>
  /\ UNCHANGED <<detailVars, curatedVars, bestVars>>

\* click on "Clear filters"
ClearFilters ==
  /\ pcList = "ready"
  /\ selectedCategories' = {}
  /\ currentQuery' = <<>>
  /\ ApplyFilters(tools, {}, <<>>, 1)
  /\ UNCHANGED <<pcList, tools>>
  /\ UNCHANGED <<detailVars, curatedVars, bestVars>>

\* click on "Prev"
PrevClick ==
  /\ pcList = "ready"
  /\ currentPage > 1
  /\ ListRender(visible, currentPage - 1)
  /\ UNCHANGED <<pcList, tools, selectedCategories, currentQuery, visible>>
  /\ UNCHANGED <<detailVars, curatedVars, bestVars>>

\* click on "Next"
NextClick ==
  /\ pcList = "ready"
  /\ currentPage < TotalPages(Len(visible))
  /\ ListRender(visible, currentPage + 1)
  /\ UNCHANGED <<pcList, tools, selectedCategories, currentQuery, visible>>
  /\ UNCHANGED <<detailVars, curatedVars, bestVars>>

\* click on a numbered page button
PageClick ==
  /\ pcList = "ready"
  /\ \E p \in PagerButtons(currentPage, TotalPages(Len(visible))) :
       /\ p # currentPage
       /\ ListRender(visible, p)
  /\ UNCHANGED <<pcList, tools, selectedCategories, currentQuery, visible>>
  /\ UNCHANGED <<detailVars, curatedVars, bestVars>>

----------------------------------------------------------------------------
(* curated.js: run() *)

\* the longest curation tried
MaxItems == 3

txt_dome == <<"d","o","m","e">>
txt_ghost == <<"g","h","o","s","t">>
txt_bestCafes == <<"b","e","s","t","-","c","a","f","e","s">>
txt_TopPicks == <<"T","o","p"," ","p","i","c","k","s">>
txt_ListNotFound == <<"L","i","s","t"," ","n","o","t"," ","f","o","u","n","d">>
txt_CuratedList == <<"C","u","r","a","t","e","d"," ","L","i","s","t">>
txt_DashBestMuscat == <<" ", EmDash, " ","B","e","s","t"," ","M","u","s","c","a","t">>

\* data/tools.json of the curated page: two records, one without categories
CuratedTools ==
  << [NamedItem EXCEPT !["categories"] = Cat(txt_Hotels)],
     [EmptyItem EXCEPT !["name"] = Str(txt_Dome), !["slug"] = Str(txt_dome)] >>

\* the slugs a curation may list: two known, two unknown
EntrySlugs == {txt_souq, txt_dome, txt_ghost, txt_xyz}

Curations ==
  { [slug |-> txt_bestCafes, title |-> t, items |-> i] :
      t \in {Str(txt_TopPicks), Undef},
      i \in {Undef} \cup
            { Arr(e) : e \in UNION {[1..n -> EntrySlugs] : n \in 0..MaxItems} } }

ListSlugs == {<<>>, txt_bestCafes}

\* bySlug[slug] || {}
BySlug(ts, slug) ==
  IF \E i \in DOMAIN ts : ts[i]["slug"] = Str(slug)
  THEN ts[CHOOSE i \in DOMAIN ts :
            /\ ts[i]["slug"] = Str(slug)
            /\ \A j \in DOMAIN ts : ts[j]["slug"] = Str(slug) => j <= i]
  ELSE EmptyItem

\* curation.items || []
CurationItems(c) == IF Truthy(c.items) THEN c.items.v ELSE <<>>

\* (rec.categories && rec.categories[0]) || "places"
CardPrimaryCat(rec) ==
  IF Truthy(rec["categories"]) /\ Len(rec["categories"].v) > 0
  THEN OrElse(rec["categories"].v[1], Str(txt_places))
  ELSE Str(txt_places)

\* prettyItemUrl(site, primaryCat, slug), as the pair it is built from
DetailUrl(ts, slug) == [cat |-> CardPrimaryCat(BySlug(ts, slug)), slug |-> slug]

\* the cards of the curation: name = rec.name || entry.slug
CuratedCards(ts, c) ==
  [i \in DOMAIN CurationItems(c) |->
     [name |-> JSString(OrElse(BySlug(ts, CurationItems(c)[i])["name"],
                               Str(CurationItems(c)[i]))),
      url |-> DetailUrl(ts, CurationItems(c)[i])]]

\* if (!cards.length) the "no items yet" message, else the cards
CuratedGrid(cards) ==
  IF Len(cards) = 0 THEN [kind |-> "empty", cards |-> <<>>]
  ELSE [kind |-> "cards", cards |-> cards]

\* itemListElement of the JSON-LD ItemList
CuratedJsonLd(ts, c) ==
  [i \in DOMAIN CurationItems(c) |->
     [position |-> i, url |-> DetailUrl(ts, CurationItems(c)[i])]]

\* a fetch rejects or is not ok: the catch writes the error text
CuratedFailed ==
  /\ pcCur = "start"
  /\ cGrid' = [kind |-> "error", cards |-> <<>>]
  /\ pcCur' = "failed"
  /\ UNCHANGED <<listSlug, curation, cTitle, cJsonLd>>
  /\ UNCHANGED <<detailVars, listVars, bestVars>>

\* if (!curation) { ... "List not found" ...; return; }
CuratedNotFound ==
  /\ pcCur = "start"
  /\ curation.slug # listSlug
  /\ docTitle' = txt_ListNotFound \o txt_DashBestMuscat
  /\ cTitle' = txt_ListNotFound
  /\ cGrid' = [kind |-> "notfound", cards |-> <<>>]
  /\ pcCur' = "notfound"
  /\ UNCHANGED <<listSlug, curation, cJsonLd>>
  /\ UNCHANGED <<urlSlug, item, pcLoad, pcEnh, title, features, hidden, aside, passes,
                 texts, probe, nav, pcSeo, listVars, bestVars>>

\* the curation is found: page chrome, cards and JSON-LD
CuratedRender ==
  /\ pcCur = "start"
  /\ curation.slug = listSlug
  /\ docTitle' = JSString(curation.title) \o txt_DashBestMuscat
  /\ cTitle' = OrElse(curation.title, Str(txt_CuratedList)).v
  /\ cGrid' = CuratedGrid(CuratedCards(CuratedTools, curation))
  /\ cJsonLd' = CuratedJsonLd(CuratedTools, curation)
  /\ pcCur' = "rendered"
  /\ UNCHANGED <<listSlug, curation>>
  /\ UNCHANGED <<urlSlug, item, pcLoad, pcEnh, title, features, hidden, aside, passes,
                 texts, probe, nav, pcSeo, listVars, bestVars>>

----------------------------------------------------------------------------
(* best-things.js: load() and the tabs *)

\* the free rows before and after the filler rows, and the filler rows
MaxFree == 1
MaxFiller == 6

txt_Tours == <<"T","o","u","r","s"," ","&"," ","E","x","p","e","r","i","e","n","c","e","s">>
txt_EventsVenues == <<"E","v","e","n","t","s"," ","a","n","d"," ","V","e","n","u","e","s">>
txt_Wellness ==
  <<"W","e","l","l","n","e","s","s"," ","&"," ","A","e","s","t","h","e","t","i","c","s">>
txt_EventsPadded == <<" ">> \o txt_EventsVenues \o <<" ">>
txt_SpaDays == <<"S","p","a"," ","d","a","y","s">>

\* CAT_MAP[label] || ""
CAT_MAP(label) ==
  IF label = txt_Tours THEN "tours"
  ELSE IF label = txt_EventsVenues THEN "events"
  ELSE IF label = txt_Wellness THEN "wellness"
  ELSE ""

\* clean = (s) => (s || "").toString().trim()
clean(v) == IF Truthy(v) THEN trim(JSString(v)) ELSE <<>>

\* Number(r.priority || 999), for a priority that is a number or missing
SortPriority(r) == IF Truthy(r.priority) THEN r.priority.v ELSE 999

CharRank(c) == CHOOSE i \in DOMAIN LowerChars : LowerChars[i] = c

\* a.localeCompare(b) for lower-case words: negative, zero or positive
RECURSIVE localeCompare(_, _)
localeCompare(s1, s2) ==
  IF s1 = <<>> /\ s2 = <<>> THEN 0
  ELSE IF s1 = <<>> THEN -1
  ELSE IF s2 = <<>> THEN 1
  ELSE IF Head(s1) = Head(s2) THEN localeCompare(Tail(s1), Tail(s2))
  ELSE IF CharRank(Head(s1)) < CharRank(Head(s2)) THEN -1 ELSE 1

\* the comparator of arr.sort
CompareRows(a, b) ==
  IF SortPriority(a) # SortPriority(b) THEN SortPriority(a) - SortPriority(b)
  ELSE localeCompare(clean(a.title), clean(b.title))

\* r placed after every row that does not come after it
InsertSorted(sorted, r) ==
  LET n == Cardinality({i \in DOMAIN sorted :
                          \A j \in 1..i : CompareRows(sorted[j], r) <= 0})
  IN  SubSeq(sorted, 1, n) \o <<r>> \o SubSeq(sorted, n + 1, Len(sorted))

\* Array.prototype.sort with the comparator: a stable sort
RECURSIVE SortRows(_)
SortRows(rs) ==
  IF rs = <<>> THEN <<>>
  ELSE InsertSorted(SortRows(SubSeq(rs, 1, Len(rs) - 1)), rs[Len(rs)])

\* the rows pushed under tab key k
GroupRows(rs, k) == SelectSeq(rs, LAMBDA r : CAT_MAP(clean(r.category)) = k)

\* byKey after grouping and sorting; a key without rows has no entry
GroupAndSort(rs) == [k \in TabKeys |-> SortRows(GroupRows(rs, k))]

\* items[0] || {}
FeaturedOf(items) == IF items = <<>> THEN NoRow ELSE items[1]

\* renderListingsInto(el, items.slice(1)): (list || []).slice(0, 5)
ListingsOf(items) == Slice(Slice(items, 1, Len(items)), 0, 5)

\* the rows tried
RowKinds ==
  { [id |-> 0, category |-> Str(c), priority |-> p, title |-> Str(t)] :
      c \in {txt_Tours, txt_EventsPadded, txt_SpaDays},
      p \in {Undef, Num(0), Num(1), Num(2)},
      t \in {txt_dome, txt_souq} }

Fillers(n) ==
  [i \in 1..n |-> [id |-> 0, category |-> Str(txt_Tours), priority |-> Num(2),
                   title |-> Str(txt_dome)]]

FreeRows == UNION {[1..n -> RowKinds] : n \in 0..MaxFree}

\* every row carries its position in the file
Numbered(rs) == [i \in DOMAIN rs |-> [rs[i] EXCEPT !.id = i]]

BestDatasets ==
  { Numbered(pre \o Fillers(n) \o post) :
      pre \in FreeRows, post \in FreeRows, n \in {0, MaxFiller} }

\* load() in tabbed mode: group, sort, wire the tabs, render the active tab
BestLoadTabs ==
  /\ pcBest = "start"
  /\ byKey' = GroupAndSort(btRows)
  /\ featured' = FeaturedOf(GroupAndSort(btRows)[activeTab])
  /\ listings' = ListingsOf(GroupAndSort(btRows)[activeTab])
  /\ pcBest' = "tabs"
  /\ UNCHANGED <<btRows, activeTab, blocks>>
  /\ UNCHANGED <<detailVars, listVars, curatedVars>>

\* load() with ?bt=all: renderAllCategories
BestLoadAll ==
  /\ pcBest = "start"
  /\ byKey' = GroupAndSort(btRows)
  /\ featured' = NoRow
  /\ listings' = <<>>
  /\ blocks' = [k \in {j \in TabKeys : GroupAndSort(btRows)[j] # <<>>} |->
                  [featured |-> FeaturedOf(GroupAndSort(btRows)[k]),
                   listings |-> ListingsOf(GroupAndSort(btRows)[k])]]
  /\ pcBest' = "all"
  /\ UNCHANGED <<btRows, activeTab>>
  /\ UNCHANGED <<detailVars, listVars, curatedVars>>

\* the fetch fails: "Content unavailable right now."
BestLoadFailed ==
  /\ pcBest = "start"
  /\ featured' = NoRow
  /\ listings' = <<>>
  /\ pcBest' = "failed"
  /\ UNCHANGED <<btRows, byKey, activeTab, blocks>>
  /\ UNCHANGED <<detailVars, listVars, curatedVars>>

\* click on a tab
TabClick ==
  /\ pcBest = "tabs"
  /\ \E k \in TabKeys :
       /\ activeTab' = k
       /\ featured' = FeaturedOf(byKey[k])
       /\ listings' = ListingsOf(byKey[k])
  /\ UNCHANGED <<pcBest, btRows, byKey, blocks>>
  /\ UNCHANGED <<detailVars, listVars, curatedVars>>

----------------------------------------------------------------------------
(* a repeated pass of fillDetails over the same record *)

FillDetailsAgain ==
  /\ pcLoad = "rendered" /\ passes >= 1 /\ passes < MaxPasses
  /\ aside' = fillDetails(item, aside)
  /\ passes' = passes + 1
  /\ UNCHANGED <<urlSlug, item, pcLoad, pcEnh, title, features, hidden, texts, probe, docTitle, nav, others>>

----------------------------------------------------------------------------
(* Specifications *)

Next ==
  \/ LoadNoSlug \/ LoadFetch \/ FetchNotOk \/ LoadRejected \/ FetchOk
  \/ ParsedNoMatch \/ Render \/ RenderThrows
  \/ EnhanceNoSlug \/ EnhanceFetch \/ EnhanceNothing \/ EnhanceRender

Spec == Init /\ [][Next]_vars

\* the same page over records that differ in their category label
InitLabels ==
  /\ \/ urlSlug = txt_souq /\ item \in LabelRecords \cup MalformedRecords
     \/ urlSlug \in UrlSlugs /\ item \in {NamedItem}
  /\ pcLoad = "start"
  /\ pcEnh = "start"
  /\ title = ttl_None
  /\ features = [k \in FeatureKeys |-> FALSE]
  /\ hidden \in {[id \in Cards |-> b] : b \in BOOLEAN}
  /\ aside = <<>>
  /\ passes = 0
  /\ texts = NoTexts
  /\ probe = NoProbe
  /\ InitRest

SpecLabels == InitLabels /\ [][Next]_vars

\* the resolver's hasData calls of one pass, the predicate list of key k
\* holding one more predicate, which throws
HasDataCalls ==
  /\ ~probe.called
  /\ \E k \in FeatureKeys :
       probe' = [called |-> TRUE, key |-> k,
                 outcomes |->
                   [j \in FeatureKeys |->
                      HasDataOutcome(item, FEATURE_REQUIREMENTS[j],
                                     IF j = k THEN ExtraChecks(j) \cup {Throwing}
                                     ELSE ExtraChecks(j))]]
  /\ UNCHANGED <<urlSlug, item, pcLoad, pcEnh, title, features, hidden, aside,
                 passes, texts, docTitle, nav, others>>

\* records for the direct calls of hasData
ProbeRecords ==
  { r \in CardRecords : /\ r["schema_keys"] = FullSchema
                        /\ r["categories"] = Cat(txt_Zoo)
                        /\ r["cuisines"] = Undef }

InitResolver ==
  /\ \/ urlSlug = txt_souq /\ item \in ProbeRecords \cup MalformedRecords
     \/ urlSlug \in UrlSlugs /\ item \in {NamedItem}
  /\ pcLoad = "start"
  /\ pcEnh = "start"
  /\ title = ttl_None
  /\ features = [k \in FeatureKeys |-> FALSE]
  /\ hidden \in {[id \in Cards |-> b] : b \in BOOLEAN}
  /\ aside = <<>>
  /\ passes = 0
  /\ texts = NoTexts
  /\ probe = NoProbe
  /\ InitRest

NextResolver == Next \/ HasDataCalls

SpecResolver == InitResolver /\ [][NextResolver]_vars

\* the three scripts of tool.html side by side
FlowRecords ==
  { NamedItem,
    [NamedItem EXCEPT !["categories"] = Cat(txt_Hotels), !["schema_keys"] = FullSchema,
                      !["cuisines"] = Chips(txt_Omani, 1)],
    [NamedItem EXCEPT !["categories"] = Cat(txt_Restaurants),
                      !["schema_keys"] = FullSchema,
                      !["cuisines"] = Chips(txt_Omani, 1)] } \cup MalformedRecords

InitFlows ==
  /\ urlSlug \in UrlSlugs /\ item \in FlowRecords
  /\ pcLoad = "start"
  /\ pcEnh = "start"
  /\ title = ttl_None
  /\ features = [k \in FeatureKeys |-> FALSE]
  /\ hidden \in {[id \in Cards |-> b] : b \in BOOLEAN}
  /\ aside = <<>>
  /\ passes = 0
  /\ texts = NoTexts
  /\ probe = NoProbe
  /\ InitRest

NextFlows == Next \/ SeoFetch \/ SeoFailed \/ SeoNotFound \/ SeoFound

SpecFlows == InitFlows /\ [][NextFlows]_vars

\* index.html: no script of the detail page runs
InitListing ==
  /\ urlSlug = <<>> /\ item = NamedItem
  /\ pcLoad = "start"
  /\ pcEnh = "start"
  /\ title = ttl_None
  /\ features = [k \in FeatureKeys |-> FALSE]
  /\ hidden = [id \in Cards |-> FALSE]
  /\ aside = <<>>
  /\ passes = 0
  /\ texts = NoTexts
  /\ probe = NoProbe
  /\ InitRest

NextListing ==
  \/ ListLoad \/ ListLanding \/ ListLoadFailed
  \/ ChipClick \/ SearchInput \/ ClearFilters
  \/ PrevClick \/ NextClick \/ PageClick

SpecListing == InitListing /\ [][NextListing]_vars

\* curated.html: the list named in the URL and the curation on the server
InitCurated ==
  /\ urlSlug = <<>> /\ item = NamedItem
  /\ pcLoad = "start"
  /\ pcEnh = "start"
  /\ title = ttl_None
  /\ features = [k \in FeatureKeys |-> FALSE]
  /\ hidden = [id \in Cards |-> FALSE]
  /\ aside = <<>>
  /\ passes = 0
  /\ texts = NoTexts
  /\ probe = NoProbe
  /\ docTitle = <<>>
  /\ nav = [id \in NavIds |-> "shown"]
  /\ pcSeo = "start"
  /\ pcList = "start"
  /\ tools = <<>>
  /\ selectedCategories = {}
  /\ currentQuery = <<>>
  /\ currentPage = 1
  /\ visible = <<>>
  /\ grid = <<>>
  /\ pageInfo = <<>>
  /\ pcCur = "start"
  /\ listSlug \in ListSlugs
  /\ curation \in Curations
  /\ cTitle = <<>>
  /\ cGrid = NoGrid
  /\ cJsonLd = <<>>
  /\ InitBestIdle

NextCurated == CuratedFailed \/ CuratedNotFound \/ CuratedRender

SpecCurated == InitCurated /\ [][NextCurated]_vars

\* index.html, the Best Things section over the rows of the file
InitBest ==
  /\ urlSlug = <<>> /\ item = NamedItem
  /\ pcLoad = "start"
  /\ pcEnh = "start"
  /\ title = ttl_None
  /\ features = [k \in FeatureKeys |-> FALSE]
  /\ hidden = [id \in Cards |-> FALSE]
  /\ aside = <<>>
  /\ passes = 0
  /\ texts = NoTexts
  /\ probe = NoProbe
  /\ docTitle = <<>>
  /\ nav = [id \in NavIds |-> "shown"]
  /\ pcSeo = "start"
  /\ pcList = "start"
  /\ tools = <<>>
  /\ selectedCategories = {}
  /\ currentQuery = <<>>
  /\ currentPage = 1
  /\ visible = <<>>
  /\ grid = <<>>
  /\ pageInfo = <<>>
  /\ pcCur = "start"
  /\ listSlug = <<>>
  /\ curation = NoCuration
  /\ cTitle = <<>>
  /\ cGrid = NoGrid
  /\ cJsonLd = <<>>
  /\ pcBest = "start"
  /\ btRows \in BestDatasets
  /\ byKey = [k \in TabKeys |-> <<>>]
  /\ activeTab = "tours"
  /\ featured = NoRow
  /\ listings = <<>>
  /\ blocks = <<>>

NextBest == BestLoadTabs \/ BestLoadAll \/ BestLoadFailed \/ TabClick

SpecBest == InitBest /\ [][NextBest]_vars

NextRepeat == Next \/ FillDetailsAgain

SpecRepeat == Init /\ [][NextRepeat]_vars

----------------------------------------------------------------------------
(* Properties of the resolver and of the section cards *)

\* the render pass of tool.js has completed
Rendered == pcLoad = "rendered"

SchemaKeys == IF IsArray(item["schema_keys"]) THEN item["schema_keys"].v ELSE <<>>

CatSlug == slugify(PrimaryCat(item))

SchemaCheck(k) == hasSchema(item, FEATURE_REQUIREMENTS[k])
DataCheck(k)   == hasData(item, FEATURE_REQUIREMENTS[k], ExtraChecks(k))

\* the sections the primary category force-hides
ForcedHidden ==
  IF HasCategoryConfig(PrimaryCat(item))
  THEN Range(getCategoryConfig(PrimaryCat(item)).hideSections)
  ELSE {}

\* C1: once the render pass has completed, every section listed in the
\* primary category's hideSections is hidden, whatever the record holds and
\* whatever the enhancer did before or does after.
C1_ForceHideWins ==
  Rendered => \A id \in ForcedHidden : hidden[id]

\* C2: a record whose schema_keys is absent or empty is not blocked by the
\* schema check: every feature with data and an open category gate resolves
\* to true.
C2_AbsentSchemaDoesNotBlock ==
  (Rendered /\ SchemaKeys = <<>>) =>
    \A k \in FeatureKeys :
      ( /\ \E i \in DOMAIN FEATURE_REQUIREMENTS[k] :
             ColumnHasData(item, FEATURE_REQUIREMENTS[k][i])
        /\ allowedForCategory(k, CatSlug) ) => features[k]

\* the gate as configured: the boolean listed for (category, key), else true
ConfiguredGate(k) ==
  IF CatSlug \in DOMAIN CATEGORY_ALLOW /\ k \in DOMAIN CATEGORY_ALLOW[CatSlug]
  THEN CATEGORY_ALLOW[CatSlug][k]
  ELSE TRUE

\* C3: the resolved visibility of every key is schemaCheck AND dataCheck AND
\* categoryGate, the gate being the configured boolean when one is listed for
\* the category and true otherwise.
C3_VisibilityIsConjunction ==
  Rendered =>
    \A k \in FeatureKeys :
      features[k] = (SchemaCheck(k) /\ DataCheck(k) /\ ConfiguredGate(k))

\* C3 witness: a pass where one key is listed false for the category although
\* its schema and data checks pass, and another key resolves to true.
C3_Witness ==
  /\ Rendered
  /\ \E k \in FeatureKeys :
       SchemaCheck(k) /\ DataCheck(k) /\ ~ConfiguredGate(k) /\ ~features[k]
  /\ \E k \in FeatureKeys : features[k]

\* a value that is absent or empty: undefined, null, a blank string, an empty
\* array, an object none of whose values is non-blank
IsEmptyValue(x) ==
  CASE IsNullish(x) -> TRUE
    [] x.t = "string" -> trim(x.v) = <<>>
    [] x.t = "array" -> Len(x.v) = 0
    [] x.t = "object" -> \A key \in DOMAIN x.v : ~NonBlank(x.v[key])
    [] OTHER -> FALSE

AllCandidatesEmpty(k) ==
  \A i \in DOMAIN FEATURE_REQUIREMENTS[k] : IsEmptyValue(item[FEATURE_REQUIREMENTS[k][i]])

NoExtraHolds(k) == \A fn \in ExtraChecks(k) : ~EvalExtra(fn, item)

\* C4 (as claimed): a key is not visible when every candidate field of it is
\* absent or empty, for every key, rating, hours, map and details included.
C4_EmptyFieldsNeverVisible ==
  Rendered => \A k \in FeatureKeys : AllCandidatesEmpty(k) => ~features[k]

\* C4 (amended): a key is not visible when every candidate field of it is
\* absent or empty and none of its extra predicates holds.
C4_EmptyFieldsNoExtraNeverVisible ==
  Rendered =>
    \A k \in FeatureKeys : (AllCandidatesEmpty(k) /\ NoExtraHolds(k)) => ~features[k]

\* C4 witness: the data check alone blocks a key (present but blank field,
\* schema listed, gate open), while another key with empty candidate fields
\* is visible through its extra predicate.
C4_Witness ==
  /\ Rendered
  /\ \E k \in FeatureKeys :
       /\ AllCandidatesEmpty(k) /\ NoExtraHolds(k)
       /\ \E i \in DOMAIN FEATURE_REQUIREMENTS[k] :
            ~IsNullish(item[FEATURE_REQUIREMENTS[k][i]])
       /\ SchemaCheck(k) /\ ConfiguredGate(k) /\ ~features[k]
  /\ \E k \in FeatureKeys : AllCandidatesEmpty(k) /\ ~NoExtraHolds(k) /\ features[k]

\* the primary categories a record may be moved to
OtherCategories ==
  {Undef, Cat(txt_Restaurants), Cat(txt_Events), Cat(txt_EVENTS), Cat(txt_Hotels),
   Cat(txt_Zoo)}

Recategorized(c) == [item EXCEPT !["categories"] = c]

\* C5: changing only the primary category never makes a key visible whose
\* schema or data check fails; the gate can only take visibility away.
C5_GateOnlyRestricts ==
  Rendered =>
    \A k \in FeatureKeys :
      /\ features[k] => (SchemaCheck(k) /\ DataCheck(k))
      /\ \A c \in OtherCategories :
           ResolveFeature(Recategorized(c), k) =>
             /\ hasSchema(Recategorized(c), FEATURE_REQUIREMENTS[k])
             /\ hasData(Recategorized(c), FEATURE_REQUIREMENTS[k], ExtraChecks(k))

\* C5 witness: a key whose schema and data checks pass is not visible under
\* the record's category and would be under another one.
C5_Witness ==
  /\ Rendered
  /\ \E k \in FeatureKeys :
       /\ SchemaCheck(k) /\ DataCheck(k) /\ ~features[k]
       /\ \E c \in OtherCategories : ResolveFeature(Recategorized(c), k)

\* C6: a record whose primary category slugifies to "events" never resolves
\* cuisines or meals to true, even with data and with the fields listed in
\* schema_keys.
C6_EventsNeverCuisines ==
  (Rendered /\ SlugOfString(PrimaryCat(item).v) = slug_events) =>
    (~features["cuisines"] /\ ~features["meals"])

\* C6 witness: an events record, its label not spelled as the slug, with
\* cuisines and meals data that schema_keys lists.
C6_Witness ==
  /\ Rendered
  /\ PrimaryCat(item) = Str(txt_EVENTS)
  /\ SlugOfString(txt_EVENTS) = slug_events
  /\ SchemaCheck("cuisines") /\ DataCheck("cuisines")
  /\ SchemaCheck("meals") /\ DataCheck("meals")
  /\ ~features["cuisines"] /\ ~features["meals"]

\* C7: a Restaurants record with a non-empty about.short, no cuisines and no
\* meals arrays and no schema_keys resolves about to true and cuisines and
\* meals to false.
C7_RestaurantExample ==
  ( /\ Rendered
    /\ PrimaryCat(item) = Str(txt_Restaurants)
    /\ NonBlank(Prop(item["about"], "short"))
    /\ IsNullish(item["cuisines"]) /\ IsNullish(item["meals"])
    /\ IsNullish(item["schema_keys"]) )
  => (features["about"] /\ ~features["cuisines"] /\ ~features["meals"])

----------------------------------------------------------------------------
(* Properties of the details panel *)

Row(label, text) == [label |-> label, value |-> text]

\* C8: a second fillDetails pass over the same record leaves the rows of the
\* panel equal to the rows after the first pass, and the feature map is the
\* one the resolver gives for the record.
C8_SecondPassSameRows ==
  passes >= 2 =>
    (aside = fillDetails(item, <<>>) /\ features = ResolveFeatures(item))

\* the rows of a list of [label, text] candidates whose text is not empty
RECURSIVE NonEmptyRows(_)
NonEmptyRows(cands) ==
  IF cands = <<>> THEN <<>>
  ELSE (IF Head(cands).value = <<>> THEN <<>> ELSE <<Head(cands)>>)
       \o NonEmptyRows(Tail(cands))

\* the text of a field read by key: nothing when missing or blank
KeyedText(v) == IF NonBlank(v) THEN RowText(v) ELSE <<>>

\* the text of a computed value: nothing when falsy
ComputedText(v) == IF Truthy(v) THEN RowText(v) ELSE <<>>

CityCountryText ==
  trim(JoinStrings(
         (IF Truthy(item["city"]) THEN <<item["city"].v>> ELSE <<>>) \o
         (IF Truthy(item["country"]) THEN <<item["country"].v>> ELSE <<>>), CommaSpace))

WebsiteText ==
  ComputedText(IF Truthy(Prop(item["actions"], "website"))
               THEN Prop(item["actions"], "website") ELSE item["url"])

PhoneText == ComputedText(Prop(item["actions"], "phone"))

CategoryRows ==
  IF Truthy(PrimaryCat(item)) THEN <<Row(lbl_Category, trim(PrimaryCat(item).v))>> ELSE <<>>

\* the value the configuration gives a [label, key] pair
ConfiguredText(f) ==
  CASE f.key # "" -> KeyedText(item[f.key])
    [] f.label = lbl_CityCountry -> CityCountryText
    [] f.label = lbl_Website -> WebsiteText
    [] f.label = lbl_Phone -> PhoneText
    [] OTHER -> <<>>

ExpectedConfigured ==
  LET fields == getCategoryConfig(PrimaryCat(item)).fields
  IN  CategoryRows \o
      NonEmptyRows([i \in DOMAIN fields |-> Row(fields[i].label, ConfiguredText(fields[i]))])

\* a row that is the Coordinates row or an auto-discovered extra of schema_keys
IsTrailingRow(r) ==
  \/ r.label = lbl_Coordinates
  \/ \E j \in DOMAIN SchemaKeys :
       shouldAutoShowKey(SchemaKeys[j]) /\ r.label = labelFromKey(SchemaKeys[j])

\* the panel is exactly these rows, then only Coordinates and extras
StartsWithThenTrailing(rows) ==
  /\ Len(aside) >= Len(rows)
  /\ SubSeq(aside, 1, Len(rows)) = rows
  /\ \A i \in (Len(rows) + 1)..Len(aside) : IsTrailingRow(aside[i])

\* fillDetails ran once on the empty panel
DetailsFilled == Rendered /\ passes = 1

HotelExample ==
  [NamedItem EXCEPT !["categories"] = Cat(txt_Hotels), !["schema_keys"] = FactSchema,
                    !["neighborhood"] = Str(txt_Qurum), !["city"] = Str(txt_Muscat),
                    !["country"] = Str(txt_Oman), !["price_range"] = Str(txt_Dollars)]

HotelExampleRows ==
  << Row(lbl_Category, txt_Hotels), Row(lbl_Neighbourhood, txt_Qurum),
     Row(lbl_CityCountry, <<"M","u","s","c","a","t",","," ","O","m","a","n">>), Row(lbl_PriceRange, txt_Dollars) >>

\* C9: for a primary category with a CategoryConfig the panel holds the
\* Category row first, then exactly the configured pairs whose value is not
\* empty, in the configured order (then only Coordinates and extras); the
\* Hotels example gives Category, Neighbourhood, City / Country, Price Range.
C9_ConfiguredRowsInOrder ==
  /\ (DetailsFilled /\ HasCategoryConfig(PrimaryCat(item))) =>
       StartsWithThenTrailing(ExpectedConfigured)
  /\ (DetailsFilled /\ item = HotelExample) => aside = HotelExampleRows

\* C9 witness: the Hotels example rendered into its four rows.
C9_Witness ==
  DetailsFilled /\ item = HotelExample /\ aside = HotelExampleRows

GenericAsClaimed ==
  CategoryRows \o
  NonEmptyRows(<< Row(lbl_CityCountry, CityCountryText),
                  Row(lbl_PriceRange,
                      ComputedText(OrElse(item["price_range"], item["pricing"]))),
                  Row(lbl_Tags, IF IsArray(item["tags"])
                                THEN trim(JoinValues(item["tags"].v, CommaSpace))
                                ELSE <<>>),
                  Row(lbl_Website, WebsiteText),
                  Row(lbl_Phone, PhoneText) >>)

GenericWithNeighbourhood ==
  CategoryRows \o
  NonEmptyRows(<< Row(lbl_Neighbourhood, ComputedText(item["neighborhood"])),
                  Row(lbl_CityCountry, CityCountryText),
                  Row(lbl_PriceRange,
                      ComputedText(OrElse(item["price_range"], item["pricing"]))),
                  Row(lbl_Tags, IF IsArray(item["tags"])
                                THEN trim(JoinValues(item["tags"].v, CommaSpace))
                                ELSE <<>>),
                  Row(lbl_Website, WebsiteText),
                  Row(lbl_Phone, PhoneText) >>)

\* C10 (as claimed): without a CategoryConfig the panel holds exactly the
\* non-empty rows of Category, City / Country, Price Range, Tags, Website,
\* Phone, in that order, then only Coordinates and extras.
C10_GenericOrdering ==
  (DetailsFilled /\ ~HasCategoryConfig(PrimaryCat(item))) =>
    StartsWithThenTrailing(GenericAsClaimed)

\* C10 (amended): without a CategoryConfig the panel holds exactly the
\* non-empty rows of Category, Neighbourhood, City / Country, Price Range,
\* Tags, Website, Phone, in that order, then only Coordinates and extras.
C10_GenericOrderingWithNeighbourhood ==
  (DetailsFilled /\ ~HasCategoryConfig(PrimaryCat(item))) =>
    StartsWithThenTrailing(GenericWithNeighbourhood)

\* C10 witness: an unconfigured category whose panel shows Category,
\* Neighbourhood and a price taken from pricing, followed by a trailing row.
C10_Witness ==
  /\ DetailsFilled /\ ~HasCategoryConfig(PrimaryCat(item))
  /\ Truthy(PrimaryCat(item))
  /\ Len(aside) > Len(GenericWithNeighbourhood)
  /\ \E i \in DOMAIN aside : aside[i].label = lbl_Neighbourhood
  /\ \E i \in DOMAIN aside : aside[i] = Row(lbl_PriceRange, txt_Dollar)

----------------------------------------------------------------------------
(* Properties of the Coordinates row and of the auto-discovered extras *)

\* item.location?.lat and item.location?.lng
LatOf == IF IsNullish(item["location"]) THEN Undef ELSE Prop(item["location"], "lat")
LngOf == IF IsNullish(item["location"]) THEN Undef ELSE Prop(item["location"], "lng")

\* both coordinates are on the record, as numbers
CoordinatesPresent == LatOf.t = "number" /\ LngOf.t = "number"

CoordinatesRow == Row(lbl_Coordinates, JSString(LatOf) \o CommaSpace \o JSString(LngOf))

\* the rows of the configured list, or of the generic list without a config
ListRows ==
  IF HasCategoryConfig(PrimaryCat(item)) THEN ExpectedConfigured
  ELSE GenericWithNeighbourhood

\* C11: whenever location.lat and location.lng are both present (any number,
\* 0 included) the panel holds the row Coordinates "{lat}, {lng}"; the row
\* sits right after the configured or fallback rows and before every extra.
C11_CoordinatesAfterListRows ==
  DetailsFilled =>
    /\ Len(aside) >= Len(ListRows)
    /\ SubSeq(aside, 1, Len(ListRows)) = ListRows
    /\ CoordinatesPresent =>
         (Len(aside) > Len(ListRows) /\ aside[Len(ListRows) + 1] = CoordinatesRow)
    /\ \A i \in DOMAIN aside :
         aside[i].label = lbl_Coordinates => i = Len(ListRows) + 1

\* how many rows of the panel the Fact Selector wrote: the list rows and the
\* Coordinates row
SelectorCount ==
  IF Len(aside) > Len(ListRows) /\ aside[Len(ListRows) + 1].label = lbl_Coordinates
  THEN Len(ListRows) + 1 ELSE Len(ListRows)

LabelKey(r) == toLowerCase(trim(r.label))

\* C12: no auto-discovered extra row has a label that equals, ignoring case,
\* the label of a row the Fact Selector wrote for the same record, even when
\* the two rows would come from different fields.
C12_ExtrasNeverRepeatSelectorLabel ==
  DetailsFilled =>
    /\ Len(aside) >= Len(ListRows)
    /\ SubSeq(aside, 1, Len(ListRows)) = ListRows
    /\ \A i \in (SelectorCount + 1)..Len(aside) :
         \A j \in 1..SelectorCount : LabelKey(aside[i]) # LabelKey(aside[j])

\* C12 witness: an Events record whose configured Venue row comes from
\* fact_venue while schema_keys also lists the non-empty field venue; the
\* panel holds one Venue row only, and a Coordinates row.
C12_Witness ==
  /\ DetailsFilled
  /\ PrimaryCat(item) = Str(txt_Events)
  /\ \E j \in DOMAIN SchemaKeys : SchemaKeys[j] = Str(FieldChars["venue"])
  /\ item["venue"] = Str(txt_Dome)
  /\ Cardinality({i \in DOMAIN aside : LabelKey(aside[i]) = <<"v","e","n","u","e">>}) = 1
  /\ \E i \in DOMAIN aside : aside[i] = Row(lbl_Venue, txt_Hall)
  /\ \E i \in DOMAIN aside : aside[i].label = lbl_Coordinates

\* the rows written after the Fact Selector's
ExtrasPart == SubSeq(aside, SelectorCount + 1, Len(aside))

\* a schema key the discoverer may show: a string outside the exclusion set,
\* without an excluded prefix, whose field holds a non-empty value
QualifiesAsExtra(k) ==
  /\ k.t = "string"
  /\ k.v \notin EXCLUDE_DETAIL_KEYS
  /\ \A i \in DOMAIN EXCLUDE_PREFIXES : ~startsWith(k.v, EXCLUDE_PREFIXES[i])
  /\ ~IsNullish(FieldByKey(item, k))
  /\ RowText(FieldByKey(item, k)) # <<>>

\* one candidate row per qualifying key, in schema_keys order
RECURSIVE QualifyingRows(_)
QualifyingRows(keys) ==
  IF keys = <<>> THEN <<>>
  ELSE (IF QualifiesAsExtra(Head(keys))
        THEN <<Row(labelFromKey(Head(keys)), RowText(FieldByKey(item, Head(keys))))>>
        ELSE <<>>) \o QualifyingRows(Tail(keys))

\* a is b with some entries left out, order kept
RECURSIVE IsSubsequence(_, _)
IsSubsequence(a, b) ==
  IF a = <<>> THEN TRUE
  ELSE IF b = <<>> THEN FALSE
  ELSE IF Head(a) = Head(b) /\ IsSubsequence(Tail(a), Tail(b)) THEN TRUE
  ELSE IsSubsequence(a, Tail(b))

\* C13: every extra row comes from a schema_keys entry outside the exclusion
\* set, without an excluded prefix and with a non-empty value, and the extras
\* keep the relative order of their keys in schema_keys.
C13_ExtrasFilteredInSchemaOrder ==
  DetailsFilled =>
    /\ Len(aside) >= Len(ListRows)
    /\ SubSeq(aside, 1, Len(ListRows)) = ListRows
    /\ IsSubsequence(ExtrasPart, QualifyingRows(SchemaKeys))

\* C13 witness: a Hotels record whose schema_keys lists sub_service, venue,
\* fact_date, fact_venue in that order, all non-empty; the extras are Venue,
\* Date, Venue in that order and nothing is shown for sub_service.
C13_Witness ==
  /\ DetailsFilled
  /\ PrimaryCat(item) = Str(txt_Hotels)
  /\ item["sub_service"] = Num(4)
  /\ item["city"] = Str(txt_Muscat)
  /\ ExtrasPart = << Row(lbl_Venue, txt_Dome), Row(lbl_Date, txt_Friday),
                     Row(lbl_Venue, txt_Hall) >>

----------------------------------------------------------------------------
(* Properties of the category policy *)

\* the primary category is absent, or neither policy table lists its slug
UnknownCategory ==
  /\ CatSlug \notin DOMAIN CATEGORY_ALLOW
  /\ CatSlug \notin DOMAIN CATEGORY_FACTS

\* the feature key behind each card
CardKey(id) == IF id = "facts" THEN "details" ELSE id

ChipCards == {"amenities", "cuisines", "meals"}

\* C14: for a primary category that no policy table lists (or no category at
\* all) every key that passes its schema and data checks resolves to true and
\* its card is not hidden (a chip card when its field is an array), and the
\* panel is filled from the generic fallback list whenever details passes.
C14_UnknownCategoryHidesNothing ==
  (Rendered /\ UnknownCategory) =>
    /\ \A k \in FeatureKeys : (SchemaCheck(k) /\ DataCheck(k)) => features[k]
    /\ \A id \in Cards :
         ( /\ SchemaCheck(CardKey(id)) /\ DataCheck(CardKey(id))
           /\ id \in ChipCards => IsArray(item[id]) ) => ~hidden[id]
    /\ SchemaCheck("details") =>
         /\ passes = 1
         /\ Len(aside) >= Len(GenericWithNeighbourhood)
         /\ SubSeq(aside, 1, Len(GenericWithNeighbourhood)) = GenericWithNeighbourhood

\* C14 witness: a Zoo record (no policy entry) whose rating and facts cards
\* are visible and whose panel starts Category, Neighbourhood.
C14_Witness ==
  /\ Rendered /\ UnknownCategory
  /\ PrimaryCat(item) = Str(txt_Zoo)
  /\ features["rating"] /\ ~hidden["rating"] /\ ~hidden["facts"]
  /\ Len(aside) >= 2
  /\ aside[1] = Row(lbl_Category, txt_Zoo)
  /\ aside[2] = Row(lbl_Neighbourhood, txt_Qurum)

\* C15: the slug that keys the gating lookup (slugify of the primary category,
\* normalised again by catSlugify inside allowedForCategory) and the slug
\* getCategoryConfig computes for fact selection and force-hides are equal for
\* every category label string, so both tables are entered under the same key.
C15_OneSlugForBothLookups ==
  PrimaryCat(item).t = "string" =>
    /\ slugify(PrimaryCat(item)) = ConfigSlug(PrimaryCat(item))
    /\ catSlugify(slugify(PrimaryCat(item))) = ConfigSlug(PrimaryCat(item))
    /\ (CatSlug \in DOMAIN CATEGORY_FACTS) = HasCategoryConfig(PrimaryCat(item))

\* C15 witness: a rendered record whose label has a leading hyphen, an
\* upper-case letter and a trailing blank; both computations give "b".
C15_Witness ==
  /\ Rendered
  /\ PrimaryCat(item) = Str(<<"-", "B", " ">>)
  /\ CatSlug = <<"b">>
  /\ ConfigSlug(PrimaryCat(item)) = <<"b">>

\* only [a-z0-9] and hyphens, no hyphen first or last, no two hyphens in a row
IsCleanSlug(s) ==
  /\ \A i \in DOMAIN s : IsSlugChar(s[i]) \/ s[i] = "-"
  /\ s # <<>> => (s[1] # "-" /\ s[Len(s)] # "-")
  /\ \A i \in 1..(Len(s) - 1) : ~(s[i] = "-" /\ s[i + 1] = "-")

\* C16: for every category label string, slugify applied to the slug gives
\* the slug back, and the slug holds only [a-z0-9] and single interior
\* hyphens, none leading or trailing.
C16_SlugifyIdempotentAndClean ==
  PrimaryCat(item).t = "string" =>
    LET once == slugify(PrimaryCat(item))
    IN  /\ slugify(Str(once)) = once
        /\ IsCleanSlug(once)

\* C16 witness: the label "B -" rendered: the run of a blank and a hyphen
\* after the letter is dropped and the slug is "b".
C16_Witness ==
  /\ Rendered
  /\ PrimaryCat(item) = Str(<<"B", " ", "-">>)
  /\ CatSlug = <<"b">>
  /\ slugify(Str(CatSlug)) = <<"b">>

----------------------------------------------------------------------------
(* Properties of the description text *)

\* the text of the first present (truthy) value of a list, empty when none is
RECURSIVE FirstPresent(_, _)
FirstPresent(values, none) ==
  IF values = <<>> THEN none
  ELSE IF Truthy(Head(values)) THEN JSString(Head(values))
  ELSE FirstPresent(Tail(values), none)

\* about.short, about.long, about_short, about_long, description, tagline
ShortFirstOrder ==
  << Prop(item["about"], "short"), Prop(item["about"], "long"),
     item["about_short"], item["about_long"], item["description"], item["tagline"] >>

\* about.long, about.short, about_long, about_short, description, tagline
LongFirstOrder ==
  << Prop(item["about"], "long"), Prop(item["about"], "short"),
     item["about_long"], item["about_short"], item["description"], item["tagline"] >>

\* the excerpt shows the text when it is not blank and is hidden otherwise
ExcerptShows(text) ==
  IF trim(text) # <<>>
  THEN ~texts.excerptHidden /\ texts.excerpt = text
  ELSE texts.excerptHidden

\* C17 (as claimed): the excerpt and the About body both take the first
\* present entry of about.short, about.long, about_short, about_long,
\* description, tagline, and the empty text when none is present.
C17_DescriptionOrder ==
  Rendered =>
    /\ ExcerptShows(FirstPresent(ShortFirstOrder, <<>>))
    /\ features["about"] => texts.about = FirstPresent(ShortFirstOrder, <<>>)

\* C17 (amended): the excerpt takes the first present entry of about.short,
\* about.long, about_short, about_long, description, tagline and is hidden
\* when that text is blank or missing; the About body, written when the about
\* section is visible, takes the first present entry of about.long,
\* about.short, about_long, about_short, description, tagline, and the
\* placeholder dash when none is present.
C17_ExcerptShortFirstAboutLongFirst ==
  Rendered =>
    /\ ExcerptShows(FirstPresent(ShortFirstOrder, <<>>))
    /\ features["about"] => texts.about = FirstPresent(LongFirstOrder, <<EmDash>>)
    /\ ~features["about"] => texts.about = <<>>

\* C17 witness: a record with about.short, about.long and both flat fields;
\* the excerpt shows about.short and the About body shows about.long.
C17_Witness ==
  /\ Rendered
  /\ item["about"] = Obj([short |-> Str(txt_short), long |-> Str(txt_long)])
  /\ item["about_short"] = Str(txt_flatShort)
  /\ item["about_long"] = Str(txt_flatLong)
  /\ features["about"]
  /\ texts = [excerpt |-> txt_short, excerptHidden |-> FALSE, about |-> txt_long]

----------------------------------------------------------------------------
(* Properties of the data check *)

\* the data check as described: some candidate field is non-empty (a string
\* after trimming, an array by its length, an object by its leaves), or an
\* extra predicate of the key holds
DataCheckAsDescribed(k) ==
  \/ \E i \in DOMAIN FEATURE_REQUIREMENTS[k] :
       ~IsEmptyValue(item[FEATURE_REQUIREMENTS[k][i]])
  \/ \E fn \in ExtraChecks(k) : EvalExtra(fn, item)

\* C18: the data check of every key is true exactly when a candidate field
\* holds a non-empty value (string: non-blank; array: length > 0 whatever its
\* elements; object: some non-blank leaf) or an extra predicate is true.
C18_DataCheckByValueShape ==
  Rendered => \A k \in FeatureKeys : DataCheck(k) = DataCheckAsDescribed(k)

\* the data check with the throwing predicate counted as false: a column
\* with data, or one of the key's own predicates true
DataCheckWithoutThrower(j) ==
  \/ \E i \in DOMAIN FEATURE_REQUIREMENTS[j] :
       ColumnHasData(item, FEATURE_REQUIREMENTS[j][i])
  \/ \E fn \in ExtraChecks(j) : EvalExtra(fn, item)

\* C19: when a predicate of a key throws, no hasData call ends in an error;
\* the key's columns and its other predicates still decide its data check,
\* and every other key gets the data check it has without the thrower.
C19_ThrowingPredicateCountsAsFalse ==
  probe.called =>
    \A j \in FeatureKeys :
      /\ probe.outcomes[j] # "throws"
      /\ probe.outcomes[j] = (IF DataCheckWithoutThrower(j) THEN "true" ELSE "false")

\* C19 witness: the thrower sits in the rating list of a record with a
\* numeric rating and no rating column; rating's own predicate is still
\* evaluated and gives true, and the about check is false as without it.
C19_Witness ==
  /\ probe.called /\ probe.key = "rating"
  /\ item["rating"] = Num(8)
  /\ ~(\E i \in DOMAIN FEATURE_REQUIREMENTS["rating"] :
         ColumnHasData(item, FEATURE_REQUIREMENTS["rating"][i]))
  /\ probe.outcomes["rating"] = "true"
  /\ probe.outcomes["about"] = "false"

----------------------------------------------------------------------------
(* Properties of malformed records *)

\* C20: whatever the type of a found record's optional fields, the render
\* pass completes: load never ends in the error handler because render threw.
C20_MalformedFieldsNeverFatal ==
  (ToolFound /\ pcLoad \notin {"start", "fetching", "parsing", "done"}) =>
    (pcLoad = "rendered" /\ title # ttl_Error)

----------------------------------------------------------------------------
(* Properties of the panel's labels *)

\* C30: after one fillDetails pass on the empty panel no two rows have labels
\* that are equal ignoring case, two extras from different schema keys
\* included.
C30_NoTwoRowsShareLabel ==
  DetailsFilled =>
    \A i, j \in DOMAIN aside : i # j => LabelKey(aside[i]) # LabelKey(aside[j])

----------------------------------------------------------------------------
(* Properties of the load sequence *)

\* the record's slug, lower-cased, is the trimmed and lower-cased URL slug
SlugMatches ==
  item["slug"].t = "string" /\ toLowerCase(item["slug"].v) = toLowerCase(trim(urlSlug))

\* no feature was resolved and no row was written
NothingResolved ==
  /\ features = [k \in FeatureKeys |-> FALSE]
  /\ aside = <<>>
  /\ passes = 0

\* C21: render, and with it the resolver and the details panel, runs only
\* from the point where the fetch answered OK and its body parsed, with a
\* non-empty URL slug matched by the record; every other end of load leaves
\* nothing resolved and the title "Not found" or "Error loading".
C21_RenderOnlyWithRecord ==
  /\ [][ ( \/ features' # features \/ aside' # aside \/ passes' # passes
           \/ (pcLoad' # pcLoad /\ pcLoad' \in {"rendered", "threw"}) )
         => (pcLoad = "parsing" /\ PageSlug # <<>> /\ SlugMatches) ]_vars
  /\ [](pcLoad = "done" => (NothingResolved /\ title \in {ttl_NotFound, ttl_Error}))

\* C21 witness: the dataset was fetched and parsed but holds no record for
\* the URL slug; the page ends "Not found" with nothing resolved.
C21_Witness ==
  /\ pcLoad = "done" /\ PageSlug # <<>> /\ ~SlugMatches
  /\ title = ttl_NotFound /\ NothingResolved

----------------------------------------------------------------------------
(* Properties of the chip sections and of the sub-navigation *)

\* the field holds no chips: missing, not an array, or an empty array
NoChips(id) == ~IsArray(item[id]) \/ Len(item[id].v) = 0

\* C23: once the render pass has completed, each of amenities, cuisines and
\* meals is hidden whenever its field is missing, not an array or an empty
\* array, whatever the resolver, the category gate or the enhancer did.
C23_ChipSectionsHiddenWithoutChips ==
  Rendered => \A id \in ChipCards : NoChips(id) => hidden[id]

\* C23 witness: cuisines is the string "Omani"; the resolver makes the key
\* visible, and the section ends hidden.
C23_Witness ==
  /\ Rendered
  /\ item["cuisines"] = Str(txt_Omani)
  /\ features["cuisines"]
  /\ hidden["cuisines"]
  /\ ~hidden["meals"]

\* C24: once the render pass has completed, no link of the sub-navigation
\* that is still displayed points to a hidden section, also for sections
\* whose visibility changed after the sub-navigation was pruned.
C24_NoDisplayedLinkToHiddenSection ==
  Rendered => \A id \in NavIds : nav[id] = "shown" => hidden[id] = FALSE

----------------------------------------------------------------------------
(* The three scripts of tool.html *)

\* the three fetches have completed and each script found the record
AllFlowsEnded ==
  /\ pcLoad = "rendered"
  /\ pcSeo \in {"found", "notfound"}
  /\ pcEnh = "done"

\* C22: the detail script, the SEO router of app.js and the enhancer need no
\* coordination: whatever the order in which their fetches complete, the
\* final document title and the final hidden state of every section are the
\* ones left when the render pass of the detail script comes last.
C22_FinalStateIndependentOfOrder ==
  AllFlowsEnded =>
    /\ docTitle = RenderDocTitle(item)
    /\ hidden = RenderCards(hidden, item)

----------------------------------------------------------------------------
(* Properties of the directory listing *)

\* the listing has loaded its dataset and rendered
Listed == pcList = "ready"

\* some tool of the dataset belongs to a selected category
SomeToolInSelection ==
  \E i \in DOMAIN tools : InCategories(tools[i], selectedCategories)

\* C25: with at least one category selected, some tool in a selected
\* category and a non-empty query, every item of the visible list both
\* matches the query and belongs to a selected category.
C25_SearchWithinSelectedCategories ==
  (Listed /\ selectedCategories # {} /\ SomeToolInSelection /\ currentQuery # <<>>)
    => \A i \in DOMAIN visible :
         /\ FuseMatches(visible[i], currentQuery)
         /\ InCategories(visible[i], selectedCategories)

\* the pagination state after a render
PaginationInvariant ==
  Listed =>
    /\ 1 <= currentPage
    /\ currentPage <= TotalPages(Len(visible))
    /\ TotalPages(Len(visible)) = Max(1, CeilDiv(Len(visible), 9))
    /\ grid = [k \in 1..(Min(currentPage * 9, Len(visible)) - ((currentPage - 1) * 9)) |->
                 visible[((currentPage - 1) * 9) + k]]

\* a step of the loaded listing that changes a filter leaves page 1
FilterChangeResetsPage ==
  (Listed /\ (selectedCategories' # selectedCategories \/ currentQuery' # currentQuery))
    => currentPage' = 1

\* C28: after every render of the loaded listing, whatever the ?page value
\* and the user events before it, 1 <= currentPage <= totalPages with
\* totalPages = max(1, ceil(|visible| / 9)), the grid holds exactly the
\* items of that page of visible, and every step that changes a filter
\* resets currentPage to 1.
C28_PaginationInvariant ==
  [] PaginationInvariant /\ [][FilterChangeResetsPage]_vars

\* C28 witness: the last of three pages of twenty items is shown
C28_Witness ==
  /\ Listed
  /\ Len(visible) = MaxTools
  /\ currentPage = TotalPages(Len(visible))
  /\ currentPage > 2
  /\ grid # <<>>
  /\ grid[1] = visible[((currentPage - 1) * 9) + 1]

\* the text that describes the rendered items: first and last position, total
ShowingOfGrid ==
  ShowingText(((currentPage - 1) * ITEMS_PER_PAGE) + 1,
              ((currentPage - 1) * ITEMS_PER_PAGE) + Len(grid), Len(visible))

\* C29: the "Showing a-b of n" text describes the items the same render put
\* in the grid, also when the ?page value exceeded the number of pages.
C29_PageInfoDescribesGrid ==
  (Listed /\ grid # <<>>) => pageInfo = ShowingOfGrid

----------------------------------------------------------------------------
(* Properties of the curated-list page *)

CuratedRendered == pcCur = "rendered"

\* the slug is the slug of a record of data/tools.json
KnownSlug(slug) == \E i \in DOMAIN CuratedTools : CuratedTools[i]["slug"] = Str(slug)

EverySlugUnknown ==
  \A i \in DOMAIN CurationItems(curation) : ~KnownSlug(CurationItems(curation)[i])

\* C26: when every slug the selected curation lists is unknown to the tools
\* dataset the grid shows the "no items" message instead of cards; otherwise
\* there is one card per item of the curation, in the curation's order, and
\* the JSON-LD positions follow the same order.
C26_UnknownSlugsGiveEmptyMessage ==
  CuratedRendered =>
    /\ EverySlugUnknown => cGrid.kind = "empty"
    /\ cGrid.kind = "cards" =>
         /\ Len(cGrid.cards) = Len(CurationItems(curation))
         /\ \A i \in DOMAIN cGrid.cards :
              cGrid.cards[i].url.slug = CurationItems(curation)[i]
    /\ Len(cJsonLd) = Len(CurationItems(curation))
    /\ \A i \in DOMAIN cJsonLd :
         /\ cJsonLd[i].position = i
         /\ cJsonLd[i].url.slug = CurationItems(curation)[i]

----------------------------------------------------------------------------
(* Properties of the Best Things section *)

\* the section has rendered, with tabs or with stacked blocks
BestRendered == pcBest \in {"tabs", "all"}

HasPriority(r) == r.priority.t = "number"

\* the group in claimed order: smaller numeric priority first, rows without
\* a priority after all rows with one
InClaimedOrder(items) ==
  \A i, j \in DOMAIN items :
    /\ (HasPriority(items[i]) /\ HasPriority(items[j])
          /\ items[i].priority.v < items[j].priority.v) => i < j
    /\ (HasPriority(items[i]) /\ ~HasPriority(items[j])) => i < j

\* the featured card is the first row and the listings the next five at most
ShowsHeadOf(view, items) ==
  /\ view.featured = (IF items = <<>> THEN NoRow ELSE items[1])
  /\ Len(view.listings) = Min(5, Max(0, Len(items) - 1))
  /\ \A i \in DOMAIN view.listings : view.listings[i] = items[i + 1]

\* C27: each tab group is sorted by priority ascending: of two rows with
\* numeric priorities p < q (0 included) the one with p comes first, rows
\* without a priority come last; the featured card is the first row of the
\* group and the listings are the next five rows at most; a row whose
\* category is not in CAT_MAP is in no group.
C27_GroupsSortedByPriority ==
  BestRendered =>
    /\ \A k \in TabKeys : InClaimedOrder(byKey[k])
    /\ pcBest = "tabs" =>
         ShowsHeadOf([featured |-> featured, listings |-> listings], byKey[activeTab])
    /\ pcBest = "all" => \A k \in DOMAIN blocks : ShowsHeadOf(blocks[k], byKey[k])
    /\ \A k \in TabKeys : \A i \in DOMAIN byKey[k] :
         CAT_MAP(clean(byKey[k][i].category)) = k

====
